---- MODULE Spec2Model ----
(***************************************************************************)
(* Model of the alerting core of @aker/ai-monitor-sdk:                     *)
(*   AlertDeduplicator   (alert-deduplicator.ts)                           *)
(*   PluginManager       (plugin.ts)                                       *)
(*   AIMonitor.alert     (monitor.ts)                                      *)
(*   HealthProbeManager  (health-probes.ts)                                *)
(* Strings are sequences of tokens, so that concatenation is modelled by   *)
(* \o and not by identity.  Time is the value of Date.now().               *)
(***************************************************************************)
EXTENDS Integers, Sequences, FiniteSets, TLC

VARIABLES
    now,          \* Date.now()
    cooldownMs,   \* AlertDeduplicator.cooldownMs
    entries,      \* AlertDeduplicator.entries : fingerprint -> DedupEntry
    ret,          \* the last deduplicator call and what it returned
    lastTrue,     \* history: fingerprint -> time of the last shouldSend that
                  \* returned true for it since its entry was last cleared
    falseReturns, \* history: fingerprint -> number of shouldSend calls that
                  \* returned false for it since its entry was last cleared
    enabled,      \* AIMonitor.config.enabled
    dedupOn,      \* AIMonitor.deduplicator is not null
    aiOn,         \* AIMonitor.aiService is set and enableAIEnhancedAlerts
    numNotifiers, \* AIMonitor.notifiers.length
    plugins,      \* PluginManager.plugins
    call,         \* the alert() call in progress, or the last one completed
    lifecycle,    \* per plugin, the lifecycle hooks (onInit, onStart, onStop)
                  \* it defines
    hookCall,     \* the register or runHook call in progress, or the last
                  \* one completed
    probeType,    \* IProbeConfig.type of the probe
    consecutiveFailuresForCritical,  \* the probe's configured threshold
    starts,       \* how many times HealthProbeManager.start() was called
    results,      \* HealthProbeManager.results: the probe's IProbeResult
    intervals,    \* HealthProbeManager.intervals has a handle for the probe
    timers,       \* number of setInterval timers not cleared
    runs,         \* the runProbe calls in flight
    done,         \* the runProbe call that has just settled
    streak,       \* history: the number of failed checks since the last
                  \* successful one (or since start())
    overlapped,   \* history: two runProbe calls were in flight together
    recent,       \* history: the titles of the last two alerts the probe
                  \* handed to the alert callback
    thresholds,   \* MetricAggregator.thresholds
    responseTimes,\* MetricAggregator.responseTimes
    requestCount, \* MetricAggregator.requestCount
    errorCount,   \* MetricAggregator.errorCount
    recorded,     \* how many times recordRequest was called
    cycle,        \* the aggregateAndAlert call in progress, or the last one
                  \* completed
    config,       \* the IMonitorConfig handed to new AIMonitor(config)
    built,        \* what new AIMonitor(config) gave: a monitor or an exception
    multi,        \* the MultiNotifier and its executeOnAll call in progress,
                  \* or the last one completed
    webhook       \* the WebhookNotifier and its post call in progress, or the
                  \* last one completed

dedupVars == <<cooldownMs, entries, ret, lastTrue, falseReturns>>
cfgVars == <<enabled, dedupOn, aiOn, numNotifiers>>
lifeVars == <<lifecycle, hookCall>>
monitorVars == <<cfgVars, plugins, call, lifeVars>>
probeVars == <<probeType, consecutiveFailuresForCritical, starts, results, intervals,
               timers, runs, done, streak, overlapped, recent>>
windowVars == <<responseTimes, requestCount, errorCount>>
aggVars == <<thresholds, windowVars, recorded, cycle>>
ctorVars == <<config, built>>
extVars == <<ctorVars, multi, webhook>>
vars == <<now, dedupVars, monitorVars, probeVars, aggVars, extVars>>

----------------------------------------------------------------------------
(* Bounds *)

MaxTime == 2
MaxCooldown == 2
MaxCount == 3
MaxPlugins == 2
MaxNotifiers == 2
MaxThreshold == 3
MaxFailures == 4
MaxRuns == 2
MaxStarts == 2
MaxSamples == 3

----------------------------------------------------------------------------
(* Alerts *)

Severities == {<<"INFO">>, <<"CRITICAL">>}
Titles == {<<"a">>, <<"b">>}
Messages == {<<"m1">>, <<"m2">>}
NoTs == -1

\* the alerts handed to the standalone deduplicator: three fingerprints that
\* differ in severity or in title, each in four variants, of which three
\* differ from the first in the message, in the timestamp or in the metrics
DedupAlerts ==
    {a \in [severity : Severities, title : Titles, message : Messages,
            timestamp : {NoTs, 0}, metrics : {{}, {"cpu"}}] :
        /\ ~(a.severity = <<"CRITICAL">> /\ a.title = <<"b">>)
        /\ Cardinality({f \in {"message", "timestamp", "metrics"} :
                           a[f] # [message |-> <<"m1">>, timestamp |-> NoTs,
                                   metrics |-> {}][f]}) <= 1}

Max(a, b) == IF a >= b THEN a ELSE b

----------------------------------------------------------------------------
(* AlertDeduplicator *)

\* a fingerprint that also tells messages apart
fingerprint_WithMessage(alert) ==
    alert.severity \o <<"::">> \o alert.title \o <<"::">> \o alert.message

\* `${alert.severity}::${alert.title}`
fingerprint(alert) == alert.severity \o <<"::">> \o alert.title

\* the condition of the if in shouldSend
ShouldSendResult(ents, key, t, cd) ==
    \/ key \notin DOMAIN ents
    \/ t - ents[key].lastSent >= cd

\* a sliding window: a suppressed call restarts the cooldown
ShouldSendEntries_Sliding(ents, key, t, cd) ==
    [k \in DOMAIN ents \cup {key} |->
        IF k = key
        THEN [lastSent |-> t,
              count |-> (IF key \in DOMAIN ents THEN ents[key].count ELSE 0) + 1]
        ELSE ents[k]]

\* the map after shouldSend
ShouldSendEntries(ents, key, t, cd) ==
    IF ShouldSendResult(ents, key, t, cd)
    THEN [k \in DOMAIN ents \cup {key} |->
            IF k = key
            THEN [lastSent |-> t,
                  count |-> (IF key \in DOMAIN ents THEN ents[key].count ELSE 0) + 1]
            ELSE ents[k]]
    ELSE [ents EXCEPT ![key].count = @ + 1]

RECURSIVE SumSuppressed(_, _)
SumSuppressed(ents, keys) ==
    IF keys = {} THEN 0
    ELSE LET k == CHOOSE x \in keys : TRUE
         IN  Max(0, ents[k].count - 1) + SumSuppressed(ents, keys \ {k})

suppressedCount(ents) == SumSuppressed(ents, DOMAIN ents)

\* reset() that leaves the map as it is
EntriesReset_Stale == entries

\* this.entries.clear()
EntriesReset == << >>

\* resetKey that clears the whole map
EntriesResetKey_All(ents, severity, title) == << >>

\* this.entries.delete(`${severity}::${title}`)
EntriesResetKey(ents, severity, title) ==
    LET key == severity \o <<"::">> \o title
    IN  [k \in DOMAIN ents \ {key} |-> ents[k]]

\* history kept beside the deduplicator: who was answered true, and when
LastTrueAfter(lt, key, t, result) ==
    IF result
    THEN [k \in DOMAIN lt \cup {key} |-> IF k = key THEN t ELSE lt[k]]
    ELSE lt

\* history kept beside the deduplicator: how often each was answered false
FalseReturnsAfter(fr, key, result) ==
    [k \in DOMAIN fr \cup {key} |->
        (IF k \in DOMAIN fr THEN fr[k] ELSE 0) + (IF k = key /\ ~result THEN 1 ELSE 0)]

\* whether the call before this one (last) removed the entry of key, and how
ClearedBy(last, key) ==
    IF last.op = "reset" /\ key \in last.cleared THEN "reset"
    ELSE IF last.op = "resetKey" /\ last.key = key /\ last.cleared THEN "resetKey"
    ELSE "none"

CountOf(ents, key) == IF key \in DOMAIN ents THEN ents[key].count ELSE 0

----------------------------------------------------------------------------
(* The standalone deduplicator *)

NoRet == [op |-> "none"]

Null == [null |-> TRUE]

\* the alert of the call before this one (last), when that was a shouldSend
\* for an alert of the same severity and title
PrevAlike(last, alert) ==
    IF /\ last.op = "shouldSend"
       /\ last.alert.severity = alert.severity
       /\ last.alert.title = alert.title
    THEN last.alert
    ELSE Null

\* no alert() call is in progress and none has just completed
IdleCall ==
    [pc |-> "idle", op |-> "none", input |-> Null, dedup |-> "none",
     enhanced |-> Null, current |-> Null, idx |-> 0, trace |-> << >>,
     chain |-> "notrun", seen |-> 0, processed |-> Null, rejected |-> {}, stopped |-> "none", outcome |-> "none"]

\* no register or runHook call is in progress and none has just completed
IdleHook ==
    [pc |-> "idle", op |-> "none", hook |-> "none", idx |-> 0, trace |-> << >>,
     before |-> << >>, outcome |-> "none"]

FreeRun == [pc |-> "free"]
\* HealthProbeManager.results has no entry for the probe
NoResult == [healthy |-> TRUE, consecutiveFailures |-> 0, lastError |-> "unset"]
NoRun == [pc |-> "none"]

\* a manager with one probe added and start() not yet called
ProbeIdle ==
    /\ starts = 0
    /\ results = NoResult
    /\ intervals = FALSE
    /\ timers = 0
    /\ runs = [r \in 1..MaxRuns |-> FreeRun]
    /\ done = NoRun
    /\ streak = 0
    /\ overlapped = FALSE
    /\ recent = <<"none", "none">>

ProbeUnused ==
    /\ probeType = "custom"
    /\ consecutiveFailuresForCritical = 3
    /\ ProbeIdle

\* DEFAULT_THRESHOLDS of the response time P95 (ms) and of the error rate;
\* the error rate thresholds 0.1 % and 1.0 % are written in tenths of a
\* percent
DEFAULT_THRESHOLDS ==
    [responseTime |-> [warning |-> 200, critical |-> 500],
     errorRate |-> [warning |-> 1, critical |-> 10]]

\* no aggregateAndAlert call is in progress and none has just completed
IdleCycle ==
    [pc |-> "idle", samples |-> << >>, n |-> 0, p95 |-> 0, errors |-> 0, total |-> 0,
     emitted |-> << >>, settled |-> << >>, outcome |-> "none",
     windowAfter |-> <<0, 0, 0>>, cleared |-> 0]

AggUnused ==
    /\ thresholds = DEFAULT_THRESHOLDS
    /\ responseTimes = << >>
    /\ requestCount = 0
    /\ errorCount = 0
    /\ recorded = 0
    /\ cycle = IdleCycle

\* no AIMonitor is being constructed
NoConfig == [none |-> TRUE]
NotBuilt == [status |-> "none"]

\* no MultiNotifier is in use
NoMulti == [none |-> TRUE]

\* no WebhookNotifier is in use
NoWebhook == [none |-> TRUE]

ExtUnused ==
    /\ config = NoConfig
    /\ built = NotBuilt
    /\ multi = NoMulti
    /\ webhook = NoWebhook

\* the caller of the last alert() has seen it settle
Returned == call.stopped = "none"

MonitorUnused ==
    /\ enabled = TRUE
    /\ dedupOn = FALSE
    /\ aiOn = FALSE
    /\ numNotifiers = 0
    /\ plugins = << >>
    /\ call = IdleCall
    /\ lifecycle = << >>
    /\ hookCall = IdleHook

DedupInit ==
    /\ now = 0
    /\ cooldownMs \in 0..MaxCooldown
    /\ entries = << >>
    /\ ret = NoRet
    /\ lastTrue = << >>
    /\ falseReturns = << >>
    /\ MonitorUnused
    /\ ProbeUnused
    /\ AggUnused
    /\ ExtUnused

Tick ==
    /\ now < MaxTime
    /\ call.pc = "idle"
    /\ Returned
    /\ now' = now + 1
    /\ UNCHANGED <<dedupVars, monitorVars, probeVars, aggVars, extVars>>

ShouldSendCall ==
    \E alert \in DedupAlerts :
        LET key == fingerprint(alert)
            result == ShouldSendResult(entries, key, now, cooldownMs)
        IN  /\ CountOf(entries, key) < MaxCount
            /\ entries' = ShouldSendEntries(entries, key, now, cooldownMs)
            /\ ret' = [op |-> "shouldSend", key |-> key, result |-> result,
                       at |-> now,
                       prev |-> IF key \in DOMAIN lastTrue THEN lastTrue[key] ELSE NoTs,
                       alert |-> alert,
                       had |-> key \in DOMAIN entries,
                       since |-> ClearedBy(ret, key),
                       prevAlert |-> PrevAlike(ret, alert)]
            /\ lastTrue' = LastTrueAfter(lastTrue, key, now, result)
            /\ falseReturns' = FalseReturnsAfter(falseReturns, key, result)
            /\ UNCHANGED <<extVars, aggVars, now, cooldownMs, monitorVars, probeVars>>

ResetCall ==
    /\ entries' = EntriesReset
    /\ ret' = [op |-> "reset", cleared |-> DOMAIN entries]
    /\ lastTrue' = << >>
    /\ falseReturns' = << >>
    /\ UNCHANGED <<extVars, aggVars, now, cooldownMs, monitorVars, probeVars>>

ResetKeyCall ==
    \E severity \in Severities, title \in Titles :
        LET key == severity \o <<"::">> \o title
        IN  /\ entries' = EntriesResetKey(entries, severity, title)
            /\ ret' = [op |-> "resetKey", key |-> key, cleared |-> key \in DOMAIN entries]
            /\ lastTrue' = [k \in DOMAIN lastTrue \ {key} |-> lastTrue[k]]
            /\ falseReturns' = [k \in DOMAIN falseReturns \ {key} |-> falseReturns[k]]
            /\ UNCHANGED <<extVars, aggVars, now, cooldownMs, monitorVars, probeVars>>

DedupNext == Tick \/ ShouldSendCall \/ ResetCall \/ ResetKeyCall

DedupSpec == DedupInit /\ [][DedupNext]_vars

----------------------------------------------------------------------------
(* PluginManager *)

PluginNames == <<"p1", "p2", "p3", "p4">>

\* what a hook does on one invocation; a plugin is user code, so each
\* invocation may behave differently
OnAlertOutcomes == {"suffix", "strip", "null", "throw"}
OnBeforeNotifyOutcomes == {"pass", "block", "throw"}

\* the value an onAlert hook returns
OnAlertReturn(plugin, alert, outcome) ==
    CASE outcome = "suffix" -> [alert EXCEPT !.title = @ \o <<"-", plugin.name>>]
      [] outcome = "strip"  -> [alert EXCEPT !.timestamp = NoTs]
      [] OTHER              -> Null

\* what a call returned, when it is not an alert
Res(x) == [r |-> x]

Event(ev, who, arg, res) == [ev |-> ev, who |-> who, arg |-> arg, res |-> res]

\* PluginManager.register: push
Register(ps, onAlert, onBeforeNotify) ==
    Append(ps, [name |-> PluginNames[Len(ps) + 1],
                onAlert |-> onAlert, onBeforeNotify |-> onBeforeNotify])

----------------------------------------------------------------------------------------------------------------------------------------
(* AIMonitor *)

MonitorAlerts ==
    [severity : {<<"CRITICAL">>}, title : {<<"Test">>},
     message : {<<"m1">>}, timestamp : {NoTs, 0}, metrics : {{}}]

\* the call returns (resolved) or throws (rejected)
Finish(c, stopped, outcome) ==
    [c EXCEPT !.pc = "idle", !.stopped = stopped, !.outcome = outcome]

\* enhancedAlert = { ...alert, timestamp: alert.timestamp || new Date() }
Stamp(alert, t) == [alert EXCEPT !.timestamp = IF @ = NoTs THEN t ELSE @]

\* the alert with the analysis appended to message and put under metrics
Enrich(alert) ==
    [alert EXCEPT !.message = @ \o <<"AI Analysis">>,
                  !.metrics = @ \cup {"aiAnalysis"}]

\* the notifiers get the alert as it was before the plugins ran
Final_PrePlugin(processed, enhanced) == enhanced

\* enhancedAlert = { ...processed, timestamp: processed.timestamp || enhancedAlert.timestamp }
Final(processed, enhanced) ==
    [processed EXCEPT !.timestamp = IF @ = NoTs THEN enhanced.timestamp ELSE @]

RECURSIVE SendAll(_, _, _)
\* notifiers.map(action): sendAlert of every notifier, in array order
SendAll(trace, n, alert) ==
    IF n = 0 THEN trace
    ELSE Append(SendAll(trace, n - 1, alert), Event("sendAlert", n, alert, Res("called")))

\* pluginManager.processAlert(enhancedAlert, this) is entered
StartChain(c, alert) ==
    [c EXCEPT !.pc = "transform", !.enhanced = alert, !.current = alert, !.idx = 1,
              !.chain = "running"]

\* the monitor never takes itself for disabled
Disabled_Never == FALSE

\* if (!this.config.enabled) return, the first statement of alert() and of
\* the four notification methods
Disabled == ~enabled

\* the result of shouldSend is logged but not acted upon
BeginCall_IgnoreDedup(input, send, t) ==
    LET c0 == [IdleCall EXCEPT !.op = "alert", !.input = input, !.outcome = "pending"]
        c == IF dedupOn
             THEN [c0 EXCEPT !.dedup = IF send THEN "sent" ELSE "suppressed",
                             !.trace = <<Event("shouldSend", 0, input,
                                               Res(IF send THEN "true" ELSE "false"))>>]
             ELSE c0
        enhanced == Stamp(input, t)
    IN  IF ~enabled THEN Finish(c0, "disabled", "resolved")
        ELSE IF aiOn
        THEN [c EXCEPT !.pc = "enrich", !.enhanced = enhanced,
                       !.trace = Append(@, Event("analyzeLog", 0, enhanced, Res("called")))]
        ELSE StartChain(c, enhanced)

\* alert() from its entry to its first await; send is what shouldSend returned
BeginCall(input, send, t) ==
    LET c0 == [IdleCall EXCEPT !.op = "alert", !.input = input, !.outcome = "pending"]
        c == IF dedupOn
             THEN [c0 EXCEPT !.dedup = IF send THEN "sent" ELSE "suppressed",
                             !.trace = <<Event("shouldSend", 0, input,
                                               Res(IF send THEN "true" ELSE "false"))>>]
             ELSE c0
        enhanced == Stamp(input, t)
    IN  IF Disabled THEN Finish(c0, "disabled", "resolved")
        ELSE IF dedupOn /\ ~send THEN Finish(c, "dedup", "resolved")
        ELSE IF aiOn
        THEN [c EXCEPT !.pc = "enrich", !.enhanced = enhanced,
                       !.trace = Append(@, Event("analyzeLog", 0, enhanced, Res("called")))]
        ELSE StartChain(c, enhanced)

\* the deduplicator answers but records nothing until the alert is delivered
AlertBegin_RecordLater ==
    \E input \in MonitorAlerts :
        LET key == fingerprint(input)
            send == ShouldSendResult(entries, key, now, cooldownMs)
        IN  /\ call.pc = "idle"
            /\ Returned
            /\ dedupOn => CountOf(entries, key) < MaxCount
            /\ call' = BeginCall(input, send, now)
            /\ UNCHANGED <<extVars, aggVars, now, dedupVars, cfgVars, plugins,
                           lifeVars, probeVars>>

\* alert() from its entry to its first await, or to its return
AlertBegin ==
    \E input \in MonitorAlerts :
        LET key == fingerprint(input)
            send == ShouldSendResult(entries, key, now, cooldownMs)
        IN  /\ call.pc = "idle"
            /\ Returned
            /\ dedupOn => CountOf(entries, key) < MaxCount
            /\ call' = BeginCall(input, send, now)
            /\ entries' = IF ~Disabled /\ dedupOn
                          THEN ShouldSendEntries(entries, key, now, cooldownMs)
                          ELSE entries
            /\ UNCHANGED <<extVars, aggVars, now, cooldownMs, ret, lastTrue, falseReturns, cfgVars, plugins,
                           lifeVars, probeVars>>

\* no catch around analyzeLog: its failure rejects alert()
EnrichSettle_Rethrow ==
    \E ok \in BOOLEAN :
        /\ call.pc = "enrich"
        /\ call' = IF ok
                   THEN StartChain(
                            [call EXCEPT !.trace = Append(@, Event("analysis", 0, call.enhanced,
                                                                   Res("ok")))],
                            Enrich(call.enhanced))
                   ELSE Finish([call EXCEPT !.trace = Append(@, Event("analysis", 0,
                                                          call.enhanced, Res("failed")))],
                               "threw", "rejected")
        /\ UNCHANGED <<extVars, aggVars, now, dedupVars, cfgVars, plugins, lifeVars, probeVars>>

\* aiService.analyzeLog settles; a failure is logged and the alert goes on
EnrichSettle ==
    \E ok \in BOOLEAN :
        /\ call.pc = "enrich"
        /\ call' = StartChain(
                        [call EXCEPT !.trace = Append(@, Event("analysis", 0, call.enhanced,
                                                   Res(IF ok THEN "ok" ELSE "failed")))],
                        IF ok THEN Enrich(call.enhanced) ELSE call.enhanced)
        /\ UNCHANGED <<extVars, aggVars, now, dedupVars, cfgVars, plugins, lifeVars, probeVars>>

\* every hook is handed the alert processAlert was called with
OnAlertArg_Original(c) == c.enhanced

\* the argument of plugin.onAlert(current, monitor)
OnAlertArg(c) == c.current

\* a null return ends the loop but is not returned: the gate phase and the
\* notifiers run on the last alert
TransformResult_BreakOnly(c, i, r, t) ==
    IF r = Null
    THEN [c EXCEPT !.trace = t, !.pc = "gate", !.idx = 1, !.seen = i]
    ELSE [c EXCEPT !.trace = t, !.current = r, !.idx = i + 1]

\* after plugin i's onAlert returned r: null ends the loop and processAlert
\* returns null, which makes alert() return
TransformResult(c, i, r, t) ==
    IF r = Null
    THEN Finish([c EXCEPT !.trace = t, !.current = Null, !.chain = "suppressed",
                          !.seen = i], "plugin", "resolved")
    ELSE [c EXCEPT !.trace = t, !.current = r, !.idx = i + 1]

\* an exception of onAlert is caught and the loop goes on with the next plugin
TransformStep_Caught ==
    /\ call.pc = "transform"
    /\ LET i == call.idx
       IN  IF i > Len(plugins)
           THEN call' = [call EXCEPT !.pc = "gate", !.idx = 1, !.seen = Len(plugins)]
           ELSE IF ~plugins[i].onAlert
           THEN call' = [call EXCEPT !.idx = i + 1]
           ELSE \E out \in OnAlertOutcomes :
                  LET arg == OnAlertArg(call)
                      r == OnAlertReturn(plugins[i], arg, out)
                  IN  IF out = "throw"
                      THEN call' = [call EXCEPT
                                       !.trace = Append(@, Event("onAlert", i, arg, Res("throw"))),
                                       !.idx = i + 1]
                      ELSE call' = TransformResult(call, i, r,
                                      Append(call.trace, Event("onAlert", i, arg, r)))
    /\ UNCHANGED <<extVars, aggVars, now, dedupVars, cfgVars, plugins, lifeVars, probeVars>>

\* one iteration of the onAlert loop of processAlert
TransformStep ==
    /\ call.pc = "transform"
    /\ LET i == call.idx
       IN  IF i > Len(plugins)
           THEN call' = [call EXCEPT !.pc = "gate", !.idx = 1, !.seen = Len(plugins)]
           ELSE IF ~plugins[i].onAlert
           THEN call' = [call EXCEPT !.idx = i + 1]
           ELSE \E out \in OnAlertOutcomes :
                  LET arg == OnAlertArg(call)
                      r == OnAlertReturn(plugins[i], arg, out)
                  IN  IF out = "throw"
                      THEN call' = Finish([call EXCEPT
                                              !.trace = Append(@, Event("onAlert", i, arg, Res("throw"))),
                                              !.chain = "threw", !.seen = i],
                                          "threw", "rejected")
                      ELSE call' = TransformResult(call, i, r,
                                      Append(call.trace, Event("onAlert", i, arg, r)))
    /\ UNCHANGED <<extVars, aggVars, now, dedupVars, cfgVars, plugins, lifeVars, probeVars>>

\* notifyAll(action) up to its await
NotifyAll(c, final) ==
    IF numNotifiers = 0
    THEN Finish(c, "nonotifiers", "resolved")
    ELSE [c EXCEPT !.pc = "notify", !.trace = SendAll(@, numNotifiers, final)]

\* a false return is ignored: the loop goes on to the next plugin
GateResult_NoSkip(c, i, out, t) ==
    CASE out = "throw" -> Finish([c EXCEPT !.trace = t, !.chain = "threw"], "threw", "rejected")
      [] OTHER         -> [c EXCEPT !.trace = t, !.idx = i + 1]

\* after plugin i's onBeforeNotify returned
GateResult(c, i, out, t) ==
    CASE out = "throw" -> Finish([c EXCEPT !.trace = t, !.chain = "threw"], "threw", "rejected")
      [] out = "block" -> Finish([c EXCEPT !.trace = t, !.chain = "suppressed"],
                                 "plugin", "resolved")
      [] OTHER         -> [c EXCEPT !.trace = t, !.idx = i + 1]

\* one iteration of the onBeforeNotify loop of processAlert; after the last
\* one processAlert returns current and alert() calls notifyAll
GateStep ==
    /\ call.pc = "gate"
    /\ LET i == call.idx
       IN  IF i > Len(plugins)
           THEN call' = NotifyAll([call EXCEPT !.processed = call.current,
                                               !.chain = "returned"],
                                  Final(call.current, call.enhanced))
           ELSE IF ~plugins[i].onBeforeNotify
           THEN call' = [call EXCEPT !.idx = i + 1]
           ELSE \E out \in OnBeforeNotifyOutcomes :
                  call' = GateResult(call, i, out,
                              Append(call.trace,
                                     Event("onBeforeNotify", i, call.current, Res(out))))
    /\ UNCHANGED <<extVars, aggVars, now, dedupVars, cfgVars, plugins, lifeVars, probeVars>>

\* Promise.all instead of Promise.allSettled: one rejection rejects alert()
SettleAll_PromiseAll(c, rej) ==
    Finish([c EXCEPT !.rejected = rej], "delivered",
           IF rej = {} THEN "resolved" ELSE "rejected")

\* Promise.allSettled has settled; rej are the notifiers that rejected, each
\* of which is logged
SettleAll(c, rej) == Finish([c EXCEPT !.rejected = rej], "delivered", "resolved")

NotifySettle ==
    \E rej \in SUBSET (1..numNotifiers) :
        /\ call.pc = "notify"
        /\ call' = SettleAll(call, rej)
        /\ UNCHANGED <<extVars, aggVars, now, dedupVars, cfgVars, plugins, lifeVars, probeVars>>

\* the four notification methods and the notifier method each one calls
NotificationOps == {"pipelineStatus", "deployment", "dailyReport", "notify"}

NotifierMethod(op) ==
    CASE op = "pipelineStatus" -> "sendPipelineStatus"
      [] op = "deployment"     -> "sendDeploymentNotification"
      [] op = "dailyReport"    -> "sendDailyReport"
      [] OTHER                 -> "send"

\* what the caller hands over: a status, a deployment, a report or a message
Payloads == {<<"first">>, <<"second">>}

RECURSIVE SendEach(_, _, _, _)
\* notifiers.map(action): the method of every notifier, in array order
SendEach(trace, n, method, arg) ==
    IF n = 0 THEN trace
    ELSE Append(SendEach(trace, n - 1, method, arg), Event(method, n, arg, Res("called")))

\* the notification is first put to the deduplicator
BeginNotification_Deduplicated(op, payload) ==
    LET c == [IdleCall EXCEPT !.op = op, !.input = payload, !.outcome = "pending"]
    IN  IF Disabled THEN Finish(c, "disabled", "resolved")
        ELSE IF numNotifiers = 0 THEN Finish(c, "nonotifiers", "resolved")
        ELSE [c EXCEPT !.pc = "notify",
                       !.trace = SendEach(<<Event("shouldSend", 0, payload, Res("true"))>>,
                                          numNotifiers, NotifierMethod(op), payload)]

\* pipelineStatus, deployment, dailyReport, notify from entry to the await in
\* notifyAll
BeginNotification(op, payload) ==
    LET c == [IdleCall EXCEPT !.op = op, !.input = payload, !.outcome = "pending"]
    IN  IF Disabled THEN Finish(c, "disabled", "resolved")
        ELSE IF numNotifiers = 0 THEN Finish(c, "nonotifiers", "resolved")
        ELSE [c EXCEPT !.pc = "notify",
                       !.trace = SendEach(<< >>, numNotifiers, NotifierMethod(op), payload)]

NotificationBegin ==
    \E op \in NotificationOps, payload \in Payloads :
        /\ call.pc = "idle"
        /\ Returned
        /\ call' = BeginNotification(op, payload)
        /\ UNCHANGED <<extVars, aggVars, now, dedupVars, cfgVars, plugins, lifeVars, probeVars>>

\* AIMonitor.use
Use ==
    \E onAlert \in BOOLEAN, onBeforeNotify \in BOOLEAN :
        /\ Len(plugins) < MaxPlugins
        /\ Returned
        /\ plugins' = Register(plugins, onAlert, onBeforeNotify)
        /\ lifecycle' = Append(lifecycle, {})
        /\ UNCHANGED <<extVars, aggVars, now, dedupVars, cfgVars, call, hookCall, probeVars>>

\* the promise of alert() settles and its caller goes on
AlertReturn ==
    /\ call.pc = "idle"
    /\ ~Returned
    /\ call' = IdleCall
    /\ UNCHANGED <<extVars, aggVars, now, dedupVars, cfgVars, plugins, lifeVars, probeVars>>

MonitorInit ==
    /\ now = 0
    /\ dedupOn \in BOOLEAN
    /\ cooldownMs = (IF dedupOn THEN MaxCooldown ELSE 0)
    /\ entries = << >>
    /\ ret = NoRet
    /\ lastTrue = << >>
    /\ falseReturns = << >>
    /\ enabled \in BOOLEAN
    /\ aiOn \in BOOLEAN
    /\ numNotifiers \in 0..MaxNotifiers
    /\ plugins = << >>
    /\ call = IdleCall
    /\ lifecycle = << >>
    /\ hookCall = IdleHook
    /\ ProbeUnused
    /\ AggUnused
    /\ ExtUnused

MonitorNext ==
    \/ Tick \/ Use \/ AlertBegin \/ EnrichSettle \/ TransformStep \/ GateStep
    \/ NotifySettle \/ AlertReturn \/ NotificationBegin

MonitorSpec == MonitorInit /\ [][MonitorNext]_vars

----------------------------------------------------------------------------
\* C1: within the cooldown of the last shouldSend that returned true for a
\* fingerprint (t' - t < cooldownMs, no reset of it in between) every
\* shouldSend for that fingerprint returns false, and the first one at
\* t' - t >= cooldownMs returns true.
C1_CooldownGate ==
    (ret.op = "shouldSend" /\ ret.prev # NoTs)
        => (ret.result <=> (ret.at - ret.prev >= cooldownMs))

\* a suppressed call inside the window was followed by a true one after it
C1_Witness ==
    /\ ret.op = "shouldSend"
    /\ ret.prev # NoTs
    /\ ret.result
    /\ cooldownMs >= 2
    /\ entries[ret.key].count >= 3

----------------------------------------------------------------------------
(* PluginManager.register and PluginManager.runHook, with alerts going on *)

LifecycleHooks == {"onInit", "onStart", "onStop"}

\* the caller of the last register or runHook has seen it settle
HookReturned == hookCall.outcome \in {"none", "pending"}

HookFinish(c, outcome) == [c EXCEPT !.pc = "idle", !.outcome = outcome]

\* a register that runs onInit first and pushes the plugin only when onInit
\* has resolved
RegisterCall_InitFirst(hooks) ==
    LET c == [IdleHook EXCEPT !.op = "register", !.idx = Len(plugins) + 1,
                              !.before = plugins, !.outcome = "pending"]
    IN  IF "onInit" \in hooks
        THEN [list |-> plugins, life |-> lifecycle,
              c |-> [c EXCEPT !.pc = "init", !.hook = "onInit",
                              !.trace = <<Event("onInit", Len(plugins) + 1, "start", Res("called"))>>]]
        ELSE [list |-> Register(plugins, TRUE, FALSE), life |-> Append(lifecycle, hooks),
              c |-> HookFinish(c, "resolved")]

\* register(plugin, monitor) up to its await: push, then onInit if present
RegisterCall(hooks) ==
    LET c == [IdleHook EXCEPT !.op = "register", !.idx = Len(plugins) + 1,
                              !.before = plugins, !.outcome = "pending"]
    IN  [list |-> Register(plugins, TRUE, FALSE), life |-> Append(lifecycle, hooks),
         c |-> IF "onInit" \in hooks
               THEN [c EXCEPT !.pc = "init", !.hook = "onInit",
                              !.trace = <<Event("onInit", Len(plugins) + 1, "start", Res("called"))>>]
               ELSE HookFinish(c, "resolved")]

\* AIMonitor.use(plugin) with a plugin that has an onAlert hook
UseBegin ==
    \E hooks \in SUBSET LifecycleHooks :
        /\ Len(plugins) < MaxPlugins
        /\ hookCall.pc = "idle"
        /\ HookReturned
        /\ LET r == RegisterCall(hooks)
           IN  /\ plugins' = r.list
               /\ lifecycle' = r.life
               /\ hookCall' = r.c
        /\ UNCHANGED <<extVars, aggVars, now, dedupVars, cfgVars, call, probeVars>>

\* the awaited onInit settles; its exception is the exception of register
InitSettle ==
    \E ok \in BOOLEAN :
        /\ hookCall.pc = "init"
        /\ hookCall' = HookFinish(
                [hookCall EXCEPT !.trace = Append(@, Event("onInit", hookCall.idx, "settle",
                                                           Res(IF ok THEN "ok" ELSE "throw")))],
                IF ok THEN "resolved" ELSE "rejected")
        /\ UNCHANGED <<extVars, aggVars, now, dedupVars, cfgVars, plugins, call, lifecycle, probeVars>>

\* runHook(hook, monitor) is entered
RunHookBegin ==
    \E hook \in {"onStart", "onStop"} :
        /\ hookCall.pc = "idle"
        /\ HookReturned
        /\ hookCall' = [IdleHook EXCEPT !.pc = "loop", !.op = "runHook", !.hook = hook,
                                        !.idx = 1, !.before = plugins,
                                        !.outcome = "pending"]
        /\ UNCHANGED <<extVars, aggVars, now, dedupVars, cfgVars, plugins, call, lifecycle, probeVars>>

\* the hook is called and the loop goes on without awaiting it
HookCalled_NoAwait(c, i) ==
    [c EXCEPT !.idx = i + 1, !.trace = Append(@, Event(c.hook, i, "start", Res("called")))]

\* await fn.call(plugin, monitor)
HookCalled(c, i) ==
    [c EXCEPT !.pc = "await", !.trace = Append(@, Event(c.hook, i, "start", Res("called")))]

\* one iteration of the loop of runHook, up to the await
RunHookStep ==
    /\ hookCall.pc = "loop"
    /\ LET i == hookCall.idx
       IN  IF i > Len(plugins)
           THEN hookCall' = HookFinish(hookCall, "resolved")
           ELSE IF hookCall.hook \notin lifecycle[i]
           THEN hookCall' = [hookCall EXCEPT !.idx = i + 1]
           ELSE hookCall' = HookCalled(hookCall, i)
    /\ UNCHANGED <<extVars, aggVars, now, dedupVars, cfgVars, plugins, call, lifecycle, probeVars>>

\* the awaited hook settles; its exception is the exception of runHook
HookSettle ==
    \E ok \in BOOLEAN :
        LET i == hookCall.idx
            t == Append(hookCall.trace,
                        Event(hookCall.hook, i, "settle", Res(IF ok THEN "ok" ELSE "throw")))
        IN  /\ hookCall.pc = "await"
            /\ hookCall' = IF ok
                            THEN [hookCall EXCEPT !.pc = "loop", !.idx = i + 1, !.trace = t]
                            ELSE HookFinish([hookCall EXCEPT !.trace = t], "rejected")
            /\ UNCHANGED <<extVars, aggVars, now, dedupVars, cfgVars, plugins, call, lifecycle, probeVars>>

\* the promise of register or runHook settles and its caller goes on
HookReturn ==
    /\ hookCall.pc = "idle"
    /\ ~HookReturned
    /\ hookCall' = IdleHook
    /\ UNCHANGED <<extVars, aggVars, now, dedupVars, cfgVars, plugins, call, lifecycle, probeVars>>

PluginInit ==
    /\ now = 0
    /\ cooldownMs = 0
    /\ entries = << >>
    /\ ret = NoRet
    /\ lastTrue = << >>
    /\ falseReturns = << >>
    /\ enabled = TRUE
    /\ dedupOn = FALSE
    /\ aiOn = FALSE
    /\ numNotifiers = 1
    /\ plugins = << >>
    /\ call = IdleCall
    /\ lifecycle = << >>
    /\ hookCall = IdleHook
    /\ ProbeUnused
    /\ AggUnused
    /\ ExtUnused

PluginNext ==
    \/ UseBegin \/ InitSettle \/ RunHookBegin \/ RunHookStep \/ HookSettle
    \/ HookReturn \/ AlertBegin \/ TransformStep \/ GateStep \/ NotifySettle
    \/ AlertReturn

PluginSpec == PluginInit /\ [][PluginNext]_vars

----------------------------------------------------------------------------------------------------------------------------------------
(* HealthProbeManager, with one probe *)

ProbeTypes == {"http", "tcp", "custom"}

\* what the awaited check does: checkHttp and checkTcp always resolve, a
\* custom check may throw
CheckOutcomes(type) ==
    IF type = "custom" THEN {"healthy", "unhealthy", "throw"}
    ELSE {"healthy", "unhealthy"}

CriticalAfter == 3

\* const severity = result.consecutiveFailures >= 3 ? 'CRITICAL' : 'WARNING'
Severity(failures) == IF failures >= CriticalAfter THEN "CRITICAL" ELSE "WARNING"

DownAlert(failures) ==
    [severity |-> Severity(failures), title |-> "is down", failures |-> failures]

RecoveredAlert == [severity |-> "INFO", title |-> "recovered", failures |-> 0]

\* start() initialises the result: healthy until proven otherwise
InitialResult == [healthy |-> TRUE, consecutiveFailures |-> 0, lastError |-> "none"]

\* the failure branch and the catch block: the probe is down once more
Failed(res, error) ==
    [healthy |-> FALSE, consecutiveFailures |-> res.consecutiveFailures + 1,
     lastError |-> error]

\* result.healthy = true; result.consecutiveFailures = 0; result.lastError = undefined
Recovered(res) == [healthy |-> TRUE, consecutiveFailures |-> 0, lastError |-> "none"]

InFlight == {r \in 1..MaxRuns : runs[r].pc # "free"}

\* runProbe up to the await of the check: it takes the result object in the
\* map and reads wasHealthy
BeginRun(res) ==
    [pc |-> "check", wasHealthy |-> res.healthy, outcome |-> "none",
     branch |-> "none", emitted |-> << >>, settled |-> << >>,
     solo |-> (InFlight = {})]

RunsAfterBegin(r, res) ==
    [q \in 1..MaxRuns |->
        IF q = r THEN BeginRun(res)
        ELSE IF runs[q].pc # "free" THEN [runs[q] EXCEPT !.solo = FALSE]
        ELSE runs[q]]

FirstFree ==
    CHOOSE r \in 1..MaxRuns :
        runs[r].pc = "free" /\ \A q \in 1..(r - 1) : runs[q].pc # "free"

\* getStatus(): a copy of the results map
getStatus == IF results = NoResult THEN << >> ELSE [probe |-> results]

\* start() that leaves the first check to the timer
Start_Deferred ==
    /\ starts < MaxStarts
    /\ done = NoRun
    /\ InFlight = {}
    /\ starts' = starts + 1
    /\ results' = InitialResult
    /\ streak' = 0
    /\ timers' = timers + 1
    /\ intervals' = TRUE
    /\ UNCHANGED <<extVars, aggVars, now, dedupVars, monitorVars, probeType,
                   consecutiveFailuresForCritical, runs, done, overlapped,
                   recent>>

\* start(): a new result, a new timer whose handle replaces the one in the
\* map, and one run at once.  It is called while no check is in flight.
Start ==
    /\ starts < MaxStarts
    /\ done = NoRun
    /\ InFlight = {}
    /\ starts' = starts + 1
    /\ results' = InitialResult
    /\ streak' = 0
    /\ timers' = timers + 1
    /\ intervals' = TRUE
    /\ runs' = RunsAfterBegin(FirstFree, InitialResult)
    /\ UNCHANGED <<extVars, aggVars, now, dedupVars, monitorVars, probeType,
                   consecutiveFailuresForCritical, done, overlapped,
                   recent>>

\* stop() that forgets the handle without clearing the timer
Stop_KeepTimer ==
    /\ done = NoRun
    /\ intervals
    /\ intervals' = FALSE
    /\ UNCHANGED <<extVars, aggVars, now, dedupVars, monitorVars, probeType,
                   consecutiveFailuresForCritical, starts, results, timers, runs,
                   done, streak, overlapped,
                   recent>>

\* stop(): clearInterval of the handle in the map
Stop ==
    /\ done = NoRun
    /\ intervals
    /\ intervals' = FALSE
    /\ timers' = timers - 1
    /\ UNCHANGED <<extVars, aggVars, now, dedupVars, monitorVars, probeType,
                   consecutiveFailuresForCritical, starts, results, runs, done,
                   streak, overlapped,
                   recent>>

\* a timer fires: runProbe(probeConfig)
TimerFire ==
    /\ timers > 0
    /\ done = NoRun
    /\ InFlight # 1..MaxRuns
    /\ runs' = RunsAfterBegin(FirstFree, results)
    /\ overlapped' = (overlapped \/ InFlight # {})
    /\ UNCHANGED <<extVars, aggVars, now, dedupVars, monitorVars, probeType,
                   consecutiveFailuresForCritical, starts, results, intervals,
                   timers, done, streak, recent>>

\* the run is over and the promise of runProbe settles; res is the result
\* object as the run leaves it
Settled(run, res, how) ==
    [pc |-> "settled", wasHealthy |-> run.wasHealthy,
     outcome |-> run.outcome, emitted |-> run.emitted,
     settled |-> run.settled, solo |-> run.solo,
     after |-> res.consecutiveFailures, healthyAfter |-> res.healthy,
     promise |-> how]

\* the body of runProbe from the settling of the awaited check to the next
\* await (or to the end): the new result object and the new run
AfterCheck(run, res, outcome) ==
    IF outcome = "healthy" /\ run.wasHealthy
    THEN [res |-> Recovered(res), run |-> [run EXCEPT !.pc = "end", !.outcome = outcome]]
    ELSE IF outcome = "healthy"
    THEN [res |-> Recovered(res),
          run |-> [run EXCEPT !.pc = "alert", !.outcome = outcome, !.branch = "recovery",
                              !.emitted = Append(@, RecoveredAlert)]]
    ELSE LET f == Failed(res, IF outcome = "throw" THEN "error" ELSE "Check failed")
         IN  [res |-> f,
              run |-> [run EXCEPT !.pc = IF outcome = "throw" THEN "catchAlert" ELSE "alert",
                                  !.outcome = outcome, !.branch = "failure",
                                  !.emitted = Append(@, DownAlert(f.consecutiveFailures))]]

\* the body of runProbe after the alert callback awaited in the try block
\* settled: a rejection is caught by the catch block of the check
AfterAlert(run, res, ok) ==
    IF ok
    THEN [res |-> IF run.branch = "recovery" THEN Recovered(res) ELSE res,
          run |-> [run EXCEPT !.pc = "end", !.settled = Append(@, "resolved")]]
    ELSE LET f == Failed(res, "error")
         IN  [res |-> f,
              run |-> [run EXCEPT !.pc = "catchAlert", !.settled = Append(@, "rejected"),
                                  !.emitted = Append(@, DownAlert(f.consecutiveFailures))]]

\* the last two titles once the run has gone from before to after
RecentAfter(before, after) ==
    IF Len(after.emitted) > Len(before.emitted)
    THEN <<recent[2], after.emitted[Len(after.emitted)].title>>
    ELSE recent

\* the awaited check settles
CheckDone ==
    \E r \in InFlight, outcome \in CheckOutcomes(probeType) :
        LET next == AfterCheck(runs[r], results, outcome)
        IN  /\ runs[r].pc = "check"
            /\ done = NoRun
            /\ outcome # "healthy" =>
                  (results.consecutiveFailures < MaxFailures /\ streak < MaxFailures)
            /\ streak' = IF outcome = "healthy" THEN 0 ELSE streak + 1
            /\ results' = next.res
            /\ recent' = RecentAfter(runs[r], next.run)
            /\ IF next.run.pc = "end"
               THEN /\ runs' = [runs EXCEPT ![r] = FreeRun]
                    /\ done' = Settled(next.run, next.res, "resolved")
               ELSE /\ runs' = [runs EXCEPT ![r] = next.run]
                    /\ UNCHANGED done
            /\ UNCHANGED <<extVars, aggVars, now, dedupVars, monitorVars, probeType,
                           consecutiveFailuresForCritical, starts, intervals, timers,
                           overlapped>>

\* the alert callback awaited inside the try block settles
AlertSettle ==
    \E r \in InFlight, ok \in BOOLEAN :
        LET next == AfterAlert(runs[r], results, ok)
        IN  /\ runs[r].pc = "alert"
            /\ done = NoRun
            /\ ~ok => results.consecutiveFailures < MaxFailures
            /\ results' = next.res
            /\ recent' = RecentAfter(runs[r], next.run)
            /\ IF next.run.pc = "end"
               THEN /\ runs' = [runs EXCEPT ![r] = FreeRun]
                    /\ done' = Settled(next.run, next.res, "resolved")
               ELSE /\ runs' = [runs EXCEPT ![r] = next.run]
                    /\ UNCHANGED done
            /\ UNCHANGED <<extVars, aggVars, now, dedupVars, monitorVars, probeType,
                           consecutiveFailuresForCritical, starts, intervals, timers,
                           streak, overlapped>>

\* the alert callback awaited inside the catch block settles; its rejection
\* rejects runProbe, which the caller's .catch logs
CatchAlertSettle ==
    \E r \in InFlight, ok \in BOOLEAN :
        LET how == IF ok THEN "resolved" ELSE "rejected"
        IN  /\ runs[r].pc = "catchAlert"
            /\ done = NoRun
            /\ runs' = [runs EXCEPT ![r] = FreeRun]
            /\ done' = Settled([runs[r] EXCEPT !.settled = Append(@, how)], results, how)
            /\ UNCHANGED <<extVars, aggVars, now, dedupVars, monitorVars, probeType,
                           consecutiveFailuresForCritical, starts, results, intervals,
                           timers, streak, overlapped,
                           recent>>

\* the settled run has been seen
RunReturn ==
    /\ done # NoRun
    /\ done' = NoRun
    /\ UNCHANGED <<extVars, aggVars, now, dedupVars, monitorVars, probeType,
                   consecutiveFailuresForCritical, starts, results, intervals,
                   timers, runs, streak, overlapped,
                   recent>>

ProbeInit ==
    /\ now = 0
    /\ cooldownMs = 0
    /\ entries = << >>
    /\ ret = NoRet
    /\ lastTrue = << >>
    /\ falseReturns = << >>
    /\ MonitorUnused
    /\ probeType \in ProbeTypes
    /\ consecutiveFailuresForCritical \in 2..MaxThreshold
    /\ ProbeIdle
    /\ AggUnused
    /\ ExtUnused

ProbeNext ==
    \/ Start \/ Stop \/ TimerFire \/ CheckDone \/ AlertSettle \/ CatchAlertSettle
    \/ RunReturn

ProbeSpec == ProbeInit /\ [][ProbeNext]_vars

----------------------------------------------------------------------------
(* Reading the trace of an alert() call *)

EventsOf(tr, ev) == {k \in 1..Len(tr) : tr[k].ev = ev}

MaxOf(S) == CHOOSE x \in S : \A y \in S : y <= x

Rank(ev) ==
    CASE ev = "shouldSend"     -> 1
      [] ev = "analyzeLog"     -> 2
      [] ev = "analysis"       -> 3
      [] ev = "onAlert"        -> 4
      [] ev = "onBeforeNotify" -> 5
      [] OTHER                 -> 6

\* the onAlert loop has ended without a null return or an exception
TransformCompleted ==
    /\ call.chain # "notrun"
    /\ call.pc # "transform"
    /\ \A k \in EventsOf(call.trace, "onAlert") :
          call.trace[k].res \notin {Null, Res("throw")}

RECURSIVE SuffixedTitle(_, _)
\* the title after the onAlert hooks of plugins 1..n each appended "-" name
SuffixedTitle(base, n) ==
    IF n = 0 THEN base
    ELSE IF plugins[n].onAlert
         THEN SuffixedTitle(base, n - 1) \o <<"-", plugins[n].name>>
         ELSE SuffixedTitle(base, n - 1)

\* C3: an onAlert hook that returns null is the last thing the call does:
\* no later onAlert, no onBeforeNotify, no sendAlert; processAlert returns
\* null and alert() returns.
C3_NullStops ==
    \A k \in EventsOf(call.trace, "onAlert") :
        call.trace[k].res = Null =>
            /\ k = Len(call.trace)
            /\ call.pc = "idle"
            /\ call.chain = "suppressed"
            /\ call.outcome = "resolved"
            /\ EventsOf(call.trace, "onBeforeNotify") = {}
            /\ EventsOf(call.trace, "sendAlert") = {}

\* a plugin returned null although a later plugin has onAlert, a plugin has
\* onBeforeNotify and a notifier is configured
C3_Witness ==
    \E k \in EventsOf(call.trace, "onAlert") :
        /\ call.trace[k].res = Null
        /\ call.trace[k].who < Len(plugins)
        /\ plugins[call.trace[k].who + 1].onAlert
        /\ \E j \in 1..Len(plugins) : plugins[j].onBeforeNotify
        /\ numNotifiers >= 1

\* C4: once the plugin chain has returned an alert, sendAlert of every
\* configured notifier is called exactly once, and alert() resolves whichever
\* of them reject.
C4_AllNotified ==
    /\ (call.chain = "returned" /\ numNotifiers > 0) =>
          \A n \in 1..numNotifiers :
              Cardinality({k \in EventsOf(call.trace, "sendAlert") :
                              call.trace[k].who = n}) = 1
    /\ call.stopped = "delivered" => call.outcome = "resolved"

\* one of two notifiers rejected
C4_Witness ==
    /\ call.stopped = "delivered"
    /\ numNotifiers >= 2
    /\ call.rejected # {}
    /\ call.rejected # 1..numNotifiers

\* C5: the onAlert hooks run in registration order, each on the value the
\* previous one returned; when the loop has ended its result is the last
\* value returned (the alert itself with no hooks), every plugin with the
\* hook was called, and hooks that each append a suffix give the title with
\* all suffixes in registration order.
C5_ChainComposition ==
    LET tr == call.trace
        oa == EventsOf(tr, "onAlert")
    IN  /\ \A k \in oa :
              LET prev == {j \in oa : j < k}
              IN  /\ tr[k].arg = IF prev = {} THEN call.enhanced ELSE tr[MaxOf(prev)].res
                  /\ \A j \in prev : tr[j].who < tr[k].who
        /\ TransformCompleted =>
              /\ {tr[k].who : k \in oa} = {i \in 1..call.seen : plugins[i].onAlert}
              /\ call.current = IF oa = {} THEN call.enhanced ELSE tr[MaxOf(oa)].res
              /\ (\A k \in oa : tr[k].res.title
                                  = tr[k].arg.title \o <<"-", plugins[tr[k].who].name>>)
                    => call.current.title = SuffixedTitle(call.enhanced.title, call.seen)

\* p1 and p2 each appended their suffix to "Test"
C5_Witness ==
    /\ TransformCompleted
    /\ call.current.title = <<"Test", "-", "p1", "-", "p2">>

\* C6: when shouldSend returned false the call has returned normally and has
\* called neither the enrichment provider nor a hook nor a notifier.
C6_DedupStops ==
    (Len(call.trace) >= 1 /\ call.trace[1].ev = "shouldSend"
        /\ call.trace[1].res = Res("false"))
    => /\ Len(call.trace) = 1
       /\ call.pc = "idle"
       /\ call.outcome = "resolved"

\* an alert was suppressed with enrichment, a plugin hook and a notifier at hand
C6_Witness ==
    /\ call.dedup = "suppressed"
    /\ call.trace[1].res = Res("false")
    /\ aiOn
    /\ numNotifiers >= 1
    /\ \E j \in 1..Len(plugins) : plugins[j].onAlert

\* the stages of a call appear in the order dedup, enrichment, onAlert,
\* onBeforeNotify, sendAlert; nothing follows shouldSend unless it returned
\* true; the chain gets the stamped alert, enriched when the analysis succeeded
StagesInOrder ==
    call.op = "alert" =>
    LET tr == call.trace
    IN  /\ \A j, k \in 1..Len(tr) : j < k => Rank(tr[j].ev) <= Rank(tr[k].ev)
        /\ (dedupOn /\ Len(tr) >= 1) =>
              /\ tr[1].ev = "shouldSend"
              /\ Len(tr) >= 2 => tr[1].res = Res("true")
        /\ (aiOn /\ call.chain # "notrun") =>
              /\ EventsOf(tr, "analysis") # {}
              /\ \A k \in EventsOf(tr, "analysis") :
                    IF tr[k].res = Res("ok")
                    THEN /\ call.enhanced.metrics = {"aiAnalysis"}
                         /\ call.enhanced.message = call.input.message \o <<"AI Analysis">>
                    ELSE /\ call.enhanced.metrics = call.input.metrics
                         /\ call.enhanced.message = call.input.message
        /\ \A k \in EventsOf(tr, "onAlert") \cup EventsOf(tr, "onBeforeNotify") :
              (\A j \in 1..(k - 1) : Rank(tr[j].ev) < 4) => tr[k].arg = call.enhanced
        /\ EventsOf(tr, "sendAlert") # {} => call.chain = "returned"

\* C7 as stated: the stages are in order and every sendAlert receives the
\* very alert the plugin chain returned.
C7_Original ==
    /\ StagesInOrder
    /\ \A k \in EventsOf(call.trace, "sendAlert") : call.trace[k].arg = call.processed

\* C7 amended: the stages are in order and every sendAlert receives the alert
\* the plugin chain returned, with its timestamp taken from the alert handed
\* to the chain when the returned alert has none.
C7_StageOrder ==
    /\ StagesInOrder
    /\ \A k \in EventsOf(call.trace, "sendAlert") :
          LET a == call.trace[k].arg
              p == call.processed
          IN  /\ a.severity = p.severity
              /\ a.title = p.title
              /\ a.message = p.message
              /\ a.metrics = p.metrics
              /\ a.timestamp = IF p.timestamp # NoTs THEN p.timestamp
                               ELSE call.enhanced.timestamp

\* an enriched alert whose title a plugin rewrote reached a notifier after a
\* dedup check
C7_Witness ==
    /\ call.op = "alert"
    /\ call.stopped = "delivered"
    /\ dedupOn /\ aiOn
    /\ call.enhanced.metrics = {"aiAnalysis"}
    /\ call.processed.title # call.enhanced.title
    /\ EventsOf(call.trace, "onBeforeNotify") # {}

----------------------------------------------------------------------------
(* Reading the runs of a probe *)

Failing(outcome) == outcome \in {"unhealthy", "throw"}

\* the severity the state machine of the specification gives the n-th
\* consecutive failure of a probe with threshold 3
EscalatedSeverity(n) == IF n >= 3 THEN "CRITICAL" ELSE "WARNING"

\* the alerts of the runs in flight and of the run just settled
EmittedNow ==
    UNION {{runs[r].emitted[i] : i \in 1..Len(runs[r].emitted)} : r \in InFlight}
    \cup (IF done = NoRun THEN {} ELSE {done.emitted[i] : i \in 1..Len(done.emitted)})

\* C2: with threshold 3 and checks one at a time, the n-th consecutive failed
\* check emits exactly one 'is down' alert, WARNING for n < 3 and CRITICAL
\* from the third on, and the next successful check emits exactly one INFO
\* 'recovered' alert and leaves consecutiveFailures at 0.
C2_Escalation ==
    (done # NoRun /\ ~overlapped /\ consecutiveFailuresForCritical = 3) =>
        /\ Failing(done.outcome) =>
              /\ Len(done.emitted) = 1
              /\ done.emitted[1].title = "is down"
              /\ done.emitted[1].severity = EscalatedSeverity(streak)
        /\ (done.outcome = "healthy" /\ ~done.wasHealthy) =>
              /\ done.emitted = <<RecoveredAlert>>
              /\ done.after = 0

\* C8: with checks one at a time, consecutiveFailures is the number of failed
\* checks since the last successful check: each failed check adds one, a
\* successful check makes it 0, and nothing else changes it, whatever the
\* alert callback does.
C8_FailureCount == ~overlapped => results.consecutiveFailures = streak

\* C9: an 'is down' alert is CRITICAL iff the consecutiveFailures it reports
\* is at least the configured consecutiveFailuresForCritical.
C9_ConfiguredThreshold ==
    \A a \in EmittedNow :
        a.title = "is down" =>
            (a.severity = "CRITICAL" <=> a.failures >= consecutiveFailuresForCritical)

\* C10: with checks one at a time, a run whose check succeeded has emitted
\* nothing when the probe was healthy as the check began, and exactly one
\* INFO 'recovered' alert when it was unhealthy.
C10_RecoveryAlert ==
    (done # NoRun /\ ~overlapped /\ done.outcome = "healthy") =>
        done.emitted = IF done.wasHealthy THEN << >> ELSE <<RecoveredAlert>>

\* C11: with checks one at a time, every failed check has emitted exactly one
\* 'is down' alert to the alert callback when its run is over, whatever the
\* state of the probe was as the check began.
C11_OneAlertPerFailure ==
    (done # NoRun /\ ~overlapped /\ Failing(done.outcome)) =>
        /\ Len(done.emitted) = 1
        /\ done.emitted[1].title = "is down"

----------------------------------------------------------------------------
(* Reading start() and stop() of the probe manager *)

\* a step in which runProbe is entered from the timer, not from start()
TimerRunBegins ==
    /\ starts' = starts
    /\ \E r \in 1..MaxRuns : runs[r].pc = "free" /\ runs'[r].pc = "check"

\* C19: before start() the status is empty, no timer is set and no check
\* runs; start() makes the result healthy with 0 consecutive failures, sets
\* one timer, and begins one check in the same step.
C19_StartInitialises ==
    /\ [](starts = 0 => getStatus = << >> /\ timers = 0 /\ InFlight = {})
    /\ [][starts' = starts + 1 =>
             /\ results'.healthy
             /\ results'.consecutiveFailures = 0
             /\ timers' = timers + 1
             /\ intervals'
             /\ \E r \in 1..MaxRuns :
                   /\ runs[r].pc = "free"
                   /\ runs'[r].pc = "check"
                   /\ runs'[r].wasHealthy
                   /\ \A q \in 1..MaxRuns \ {r} : runs'[q].pc = runs[q].pc]_vars

\* start() has just been called: the first check is in flight and the timer
\* has not fired yet
C19_Witness ==
    /\ starts = 1
    /\ getStatus = [probe |-> InitialResult]
    /\ timers = 1
    /\ Cardinality(InFlight) = 1
    /\ \A r \in InFlight : runs[r].pc = "check"
    /\ done = NoRun

----------------------------------------------------------------------------
(* Reading the gate phase *)

\* the alert the transform phase ended with: what the last onAlert returned,
\* or the alert processAlert was called with
Transformed ==
    IF EventsOf(call.trace, "onAlert") = {} THEN call.enhanced
    ELSE call.trace[MaxOf(EventsOf(call.trace, "onAlert"))].res

\* C16: an onBeforeNotify is called only after every onAlert has run and none
\* returned null, with the alert the transform phase ended with, after the
\* onBeforeNotify of every earlier plugin that has one and never twice; a
\* false return is the last thing the call does: processAlert returns null
\* and no later onBeforeNotify and no sendAlert follows.
C16_GatePhase ==
    \A k \in EventsOf(call.trace, "onBeforeNotify") :
        LET e == call.trace[k]
        IN  /\ TransformCompleted
            /\ \A j \in EventsOf(call.trace, "onAlert") : j < k
            /\ e.arg = Transformed
            /\ \A p \in 1..(e.who - 1) :
                  plugins[p].onBeforeNotify =>
                      \E j \in 1..(k - 1) :
                          /\ call.trace[j].ev = "onBeforeNotify"
                          /\ call.trace[j].who = p
            /\ \A j \in EventsOf(call.trace, "onBeforeNotify") :
                  j < k => call.trace[j].who < e.who
            /\ e.res = Res("block") =>
                  /\ k = Len(call.trace)
                  /\ call.pc = "idle"
                  /\ call.chain = "suppressed"
                  /\ call.outcome = "resolved"

\* the first of two plugins with onBeforeNotify returned false on the alert
\* its onAlert had transformed, with a notifier configured
C16_Witness ==
    /\ Len(plugins) = 2
    /\ plugins[1].onAlert /\ plugins[1].onBeforeNotify /\ plugins[2].onBeforeNotify
    /\ numNotifiers > 0
    /\ Len(call.trace) >= 2
    /\ call.trace[Len(call.trace)] =
           Event("onBeforeNotify", 1, Transformed, Res("block"))
    /\ Transformed.title = <<"Test", "-", "p1">>

----------------------------------------------------------------------------
(* Reading the trace of a register or runHook call *)

\* the positions of the trace at which a hook was called / has settled
Starts(tr) == {k \in 1..Len(tr) : tr[k].arg = "start"}
Settles(tr) == {k \in 1..Len(tr) : tr[k].arg = "settle"}

\* the plugins that define the hook of the runHook call
Defining == {p \in 1..Len(plugins) : hookCall.hook \in lifecycle[p]}

\* the hooks that were called, were called in registration order, on plugins
\* that define the hook, each once, each after the one before had settled
HooksSequential ==
    LET tr == hookCall.trace
    IN  /\ \A k \in Starts(tr) :
              /\ tr[k].who \in Defining
              /\ tr[k].ev = hookCall.hook
              /\ \A p \in Defining : p < tr[k].who => \E j \in Starts(tr) : j < k /\ tr[j].who = p
              /\ \A j \in Starts(tr) : j < k => tr[j].who < tr[k].who
              /\ k > 1 => /\ tr[k - 1].arg = "settle"
                          /\ tr[k - 1].res = Res("ok")
        /\ \A k \in Settles(tr) :
              /\ k > 1
              /\ tr[k - 1].arg = "start"
              /\ tr[k - 1].who = tr[k].who

\* C17 as stated: a runHook call that has settled has called the hook of
\* every plugin that defines it exactly once, in registration order and one
\* after the other.
C17_Original ==
    (hookCall.op = "runHook" /\ hookCall.pc = "idle") =>
        /\ HooksSequential
        /\ \A p \in Defining :
              Cardinality({k \in Starts(hookCall.trace) : hookCall.trace[k].who = p}) = 1

\* C17 amended: runHook calls the hooks in registration order, each after the
\* one before has settled, never twice and never on a plugin without the
\* hook; when it resolves, the hook of every plugin that defines it has been
\* called; a hook that throws is the last one called and runHook rejects.
C17_Sequential ==
    hookCall.op = "runHook" =>
        /\ HooksSequential
        /\ hookCall.outcome = "resolved" =>
              \A p \in Defining :
                  Cardinality({k \in Starts(hookCall.trace) : hookCall.trace[k].who = p}) = 1
        /\ \A k \in Settles(hookCall.trace) :
              hookCall.trace[k].res = Res("throw") =>
                  /\ k = Len(hookCall.trace)
                  /\ hookCall.pc = "idle"
                  /\ hookCall.outcome = "rejected"

\* runHook resolved after the hooks of two plugins, one after the other
C17_Witness ==
    /\ hookCall.op = "runHook"
    /\ hookCall.outcome = "resolved"
    /\ Defining = {1, 2}
    /\ Len(hookCall.trace) = 4

\* C18: a register call has put exactly one plugin at the end of the list,
\* before its onInit is called and whatever onInit does, and has called
\* onInit once iff the plugin has one; no step removes or reorders plugins,
\* and an alert runs the onAlert hook of every registered plugin.
C18_RegisterAppends ==
    /\ [](hookCall.op = "register" =>
            /\ Len(plugins) = Len(hookCall.before) + 1
            /\ SubSeq(plugins, 1, Len(hookCall.before)) = hookCall.before
            /\ hookCall.idx = Len(plugins)
            /\ Cardinality(Starts(hookCall.trace)) =
                    (IF "onInit" \in lifecycle[hookCall.idx] THEN 1 ELSE 0))
    /\ [](call.pc \in {"gate", "notify"} =>
            \A p \in 1..call.seen :
                plugins[p].onAlert => \E k \in EventsOf(call.trace, "onAlert") :
                                          call.trace[k].who = p)
    /\ [][/\ Len(plugins') >= Len(plugins)
          /\ SubSeq(plugins', 1, Len(plugins)) = plugins]_vars

\* the second plugin's onInit threw, and an alert has run its onAlert
C18_Witness ==
    /\ hookCall.op = "register"
    /\ hookCall.outcome = "rejected"
    /\ hookCall.idx = 2
    /\ Len(plugins) = 2
    /\ call.pc = "notify"
    /\ \E k \in EventsOf(call.trace, "onAlert") : call.trace[k].who = 2

----------------------------------------------------------------------------
(* Reading the deduplicator's history *)

RECURSIVE SumOf(_, _)
SumOf(f, keys) ==
    IF keys = {} THEN 0
    ELSE LET k == CHOOSE x \in keys : TRUE
         IN  f[k] + SumOf(f, keys \ {k})

\* C12: a shouldSend for a fingerprint that has no entry (never seen, or its
\* entry removed by the reset() or resetKey just before) returns true, and
\* right after reset() suppressedCount is 0.
C12_FirstOccurrence ==
    /\ (ret.op = "shouldSend" /\ (~ret.had \/ ret.since # "none")) => ret.result
    /\ ret.op = "reset" => suppressedCount(entries) = 0

\* an alert sent at time 0 under a positive cooldown, forgotten by reset(),
\* and sent again at time 0
C12_Witness ==
    /\ ret.op = "shouldSend"
    /\ ret.since = "reset"
    /\ ret.result
    /\ cooldownMs = MaxCooldown
    /\ now = 0

\* C13: under a positive cooldown, suppressedCount is the number of
\* shouldSend calls that returned false for the fingerprints that have an
\* entry.
C13_SuppressedCount ==
    cooldownMs > 0 =>
        suppressedCount(entries) = SumOf(falseReturns, DOMAIN falseReturns)

\* C14: a shouldSend looks at the alert's severity and title only: it returns
\* true iff the entry of that pair is missing or older than the cooldown,
\* whatever the message, metrics and timestamp, and it touches the entry of
\* that pair and of no other.
C14_SameSeverityAndTitle ==
    [][(ret'.op = "shouldSend" /\ entries' # entries) =>
          LET k == ret'.alert.severity \o <<"::">> \o ret'.alert.title
          IN  /\ ret'.result <=>
                    (k \notin DOMAIN entries \/ now - entries[k].lastSent >= cooldownMs)
              /\ DOMAIN entries' = DOMAIN entries \cup {k}
              /\ \A j \in DOMAIN entries \ {k} : entries'[j] = entries[j]]_vars

\* an alert suppressed as the duplicate of one that differs from it in the
\* message, the metrics or the timestamp, while another pair has an entry
C14_Witness ==
    /\ ret.op = "shouldSend"
    /\ ret.prevAlert # Null
    /\ ret.prevAlert # ret.alert
    /\ ~ret.result
    /\ entries[ret.key].count = 2
    /\ Cardinality(DOMAIN entries) >= 2

\* C15: resetKey removes the entry of its fingerprint and leaves every other
\* entry as it was, and the next shouldSend for that fingerprint returns
\* true.
C15_ResetKeyFrame ==
    /\ [][ret'.op = "resetKey" =>
             entries' = [k \in DOMAIN entries \ {ret'.key} |-> entries[k]]]_vars
    /\ [](ret.op = "shouldSend" /\ ret.since = "resetKey" => ret.result)

\* within the cooldown of two fingerprints, one of them was reset and sent
\* again while the other keeps its suppressed call
C15_Witness ==
    /\ ret.op = "shouldSend"
    /\ ret.since = "resetKey"
    /\ ret.result
    /\ cooldownMs = MaxCooldown
    /\ now = 0
    /\ \E j \in DOMAIN entries \ {ret.key} : entries[j].count >= 2

----------------------------------------------------------------------------
(* MetricAggregator *)

\* thresholds given in the configuration: P95 of 50 / 300 ms, error rate of
\* 10 % / 50 % (in tenths of a percent)
CustomThresholds ==
    [responseTime |-> [warning |-> 50, critical |-> 300],
     errorRate |-> [warning |-> 100, critical |-> 500]]

\* the durations passed to recordRequest
Durations == {50, 300, 600}

\* windows recorded before the model starts: n requests of 50 ms, of which
\* `errors` were errors
Preloads ==
    {[n |-> 0, errors |-> 0], [n |-> 19, errors |-> 0],
     [n |-> 99, errors |-> 0], [n |-> 99, errors |-> 4]}

\* this.responseTimes.sort((a, b) => a - b): position i of the result holds
\* the value v with fewer than i elements below v and at least i elements
\* not above it
SortAscending(seq) ==
    [i \in 1..Len(seq) |->
        CHOOSE v \in {seq[j] : j \in 1..Len(seq)} :
            /\ Cardinality({j \in 1..Len(seq) : seq[j] < v}) < i
            /\ Cardinality({j \in 1..Len(seq) : seq[j] <= v}) >= i]

\* the largest index of the window
P95Index_Last(n) == n - 1

\* Math.floor(this.responseTimes.length * 0.95), an index from 0
P95Index(n) == (n * 95) \div 100

\* this.responseTimes[p95Index] of the sorted array
P95(sorted) == sorted[P95Index(Len(sorted)) + 1]

LatencyAlert(severity, p95) == [signal |-> "latency", severity |-> severity, value |-> p95]

ErrorRateAlert(severity, errors, total) ==
    [signal |-> "errorRate", severity |-> severity, value |-> <<errors, total>>]

\* two ifs in place of if / else if: a critical P95 also emits the warning
LatencyAlerts_BothIfs(p95, thr) ==
    (IF p95 > thr.responseTime.critical THEN <<LatencyAlert("CRITICAL", p95)>> ELSE << >>)
    \o (IF p95 > thr.responseTime.warning THEN <<LatencyAlert("WARNING", p95)>> ELSE << >>)

\* 3. Check Response Time Thresholds: the alerts handed to monitor.alert
LatencyAlerts(p95, thr) ==
    IF p95 > thr.responseTime.critical THEN <<LatencyAlert("CRITICAL", p95)>>
    ELSE IF p95 > thr.responseTime.warning THEN <<LatencyAlert("WARNING", p95)>>
    ELSE << >>

\* errorRate > threshold, with errorRate = (errors / total) * 100 and the
\* threshold in tenths of a percent
RateAbove(errors, total, threshold) == errors * 1000 > threshold * total

\* 4. Check Error Rate Thresholds: the alerts handed to monitor.alert
ErrorRateAlerts(errors, total, thr) ==
    IF RateAbove(errors, total, thr.errorRate.critical)
    THEN <<ErrorRateAlert("CRITICAL", errors, total)>>
    ELSE IF RateAbove(errors, total, thr.errorRate.warning)
    THEN <<ErrorRateAlert("WARNING", errors, total)>>
    ELSE << >>

\* Reset window
EmptyWindow == [rt |-> << >>, rc |-> 0, ec |-> 0]

\* the cycle ends: the window is reset and aggregateAndAlert resolves
CycleEnd(c) ==
    /\ responseTimes' = EmptyWindow.rt
    /\ requestCount' = EmptyWindow.rc
    /\ errorCount' = EmptyWindow.ec
    /\ cycle' = [c EXCEPT !.pc = "idle", !.outcome = "resolved",
                          !.windowAfter = <<Len(EmptyWindow.rt), EmptyWindow.rc,
                                            EmptyWindow.ec>>,
                          !.cleared = Len(responseTimes)]

\* the awaited monitor.alert rejected: aggregateAndAlert rejects where it
\* stands and the window is left as it is
CycleRejected(c) ==
    [c EXCEPT !.pc = "idle", !.outcome = "rejected", !.settled = Append(@, "rejected"),
              !.windowAfter = <<Len(responseTimes), requestCount, errorCount>>]

\* from the error rate check on: the alert is awaited, or the cycle ends;
\* rt is the array as the cycle has left it so far
ErrorRateCheck(c, rt) ==
    LET alerts == ErrorRateAlerts(c.errors, c.total, thresholds)
    IN  IF alerts = << >>
        THEN CycleEnd(c)
        ELSE /\ cycle' = [c EXCEPT !.pc = "errorRate", !.emitted = @ \o alerts]
             /\ responseTimes' = rt
             /\ UNCHANGED <<requestCount, errorCount>>

\* a cycle that reports an idle window
EmptyCycle_Heartbeat ==
    [IdleCycle EXCEPT !.outcome = "resolved", !.emitted = <<LatencyAlert("WARNING", 0)>>]

\* if (this.responseTimes.length === 0) return
EmptyCycle == [IdleCycle EXCEPT !.outcome = "resolved"]

\* recordRequest(duration, isError)
RecordRequest ==
    \E duration \in Durations, isError \in BOOLEAN :
        /\ recorded < MaxSamples
        /\ recorded' = recorded + 1
        /\ responseTimes' = Append(responseTimes, duration)
        /\ requestCount' = requestCount + 1
        /\ errorCount' = errorCount + (IF isError THEN 1 ELSE 0)
        /\ UNCHANGED <<extVars, now, dedupVars, monitorVars, probeVars, thresholds, cycle>>

\* the timer calls aggregateAndAlert, which runs up to its first await
AggregateBegin ==
    /\ cycle = IdleCycle
    /\ IF Len(responseTimes) = 0
       THEN /\ cycle' = EmptyCycle
            /\ UNCHANGED windowVars
       ELSE LET sorted == SortAscending(responseTimes)
                p95 == P95(sorted)
                c == [IdleCycle EXCEPT !.samples = responseTimes, !.n = Len(sorted),
                                       !.p95 = p95,
                                       !.errors = errorCount, !.total = requestCount,
                                       !.outcome = "pending"]
                alerts == LatencyAlerts(p95, thresholds)
            IN  IF alerts = << >>
                THEN ErrorRateCheck(c, sorted)
                ELSE /\ cycle' = [c EXCEPT !.pc = "latency", !.emitted = alerts]
                     /\ responseTimes' = sorted
                     /\ UNCHANGED <<requestCount, errorCount>>
    /\ UNCHANGED <<extVars, now, dedupVars, monitorVars, probeVars, thresholds, recorded>>

\* the awaited monitor.alert of the latency alert settles; its rejection is
\* the rejection of aggregateAndAlert
LatencySettle ==
    \E ok \in BOOLEAN :
        /\ cycle.pc = "latency"
        /\ IF ok
           THEN ErrorRateCheck([cycle EXCEPT !.settled = Append(@, "resolved")],
                               responseTimes)
           ELSE /\ cycle' = CycleRejected(cycle)
                /\ UNCHANGED windowVars
        /\ UNCHANGED <<extVars, now, dedupVars, monitorVars, probeVars, thresholds, recorded>>

\* the awaited monitor.alert of the error rate alert settles
ErrorRateSettle ==
    \E ok \in BOOLEAN :
        /\ cycle.pc = "errorRate"
        /\ IF ok
           THEN CycleEnd([cycle EXCEPT !.settled = Append(@, "resolved")])
           ELSE /\ cycle' = CycleRejected(cycle)
                /\ UNCHANGED windowVars
        /\ UNCHANGED <<extVars, now, dedupVars, monitorVars, probeVars, thresholds, recorded>>

\* the promise of aggregateAndAlert has settled and the timer goes on
CycleReturn ==
    /\ cycle.pc = "idle"
    /\ cycle.outcome \in {"resolved", "rejected"}
    /\ cycle' = IdleCycle
    /\ UNCHANGED <<extVars, now, dedupVars, monitorVars, probeVars, thresholds, windowVars, recorded>>

AggInit ==
    /\ now = 0
    /\ cooldownMs = 0
    /\ entries = << >>
    /\ ret = NoRet
    /\ lastTrue = << >>
    /\ falseReturns = << >>
    /\ MonitorUnused
    /\ ProbeUnused
    /\ ExtUnused
    /\ thresholds \in {DEFAULT_THRESHOLDS, CustomThresholds}
    /\ \E w \in Preloads :
          /\ responseTimes = [i \in 1..w.n |-> 50]
          /\ requestCount = w.n
          /\ errorCount = w.errors
    /\ recorded = 0
    /\ cycle = IdleCycle

AggNext ==
    \/ RecordRequest \/ AggregateBegin \/ LatencySettle \/ ErrorRateSettle
    \/ CycleReturn

AggSpec == AggInit /\ [][AggNext]_vars

----------------------------------------------------------------------------
(* Reading an aggregation cycle *)

AlertsOf(c, signal) == {k \in 1..Len(c.emitted) : c.emitted[k].signal = signal}

\* what the thresholds ask for a value above them
Expected(aboveCritical, aboveWarning) ==
    IF aboveCritical THEN "CRITICAL" ELSE IF aboveWarning THEN "WARNING" ELSE "none"

\* the alerts of the signal are: none when nothing is expected, else one of
\* the expected severity
EmittedAs(c, signal, expected) ==
    IF expected = "none" THEN AlertsOf(c, signal) = {}
    ELSE /\ Cardinality(AlertsOf(c, signal)) = 1
         /\ \A k \in AlertsOf(c, signal) : c.emitted[k].severity = expected

\* C21: a cycle on a window of n > 0 samples has taken as P95 the sample of
\* rank floor(n * 0.95) (from 0) in ascending order, and has emitted one
\* latency alert, CRITICAL when P95 > critical, else WARNING when
\* P95 > warning, else none.
C21_P95Latency ==
    cycle.n > 0 =>
        LET smp == cycle.samples
            k == (Len(smp) * 95) \div 100
        IN  /\ cycle.n = Len(smp)
            /\ Cardinality({j \in 1..Len(smp) : smp[j] < cycle.p95}) <= k
            /\ Cardinality({j \in 1..Len(smp) : smp[j] <= cycle.p95}) > k
            /\ EmittedAs(cycle, "latency",
                         Expected(cycle.p95 > thresholds.responseTime.critical,
                                  cycle.p95 > thresholds.responseTime.warning))

\* 19 samples of 50 and one of 600 under the default thresholds: P95 is 600
\* and the alert is CRITICAL
C21_Witness ==
    /\ thresholds = DEFAULT_THRESHOLDS
    /\ cycle.n = 20
    /\ Cardinality({j \in 1..20 : cycle.samples[j] = 50}) = 19
    /\ cycle.p95 = 600
    /\ cycle.emitted[1] = LatencyAlert("CRITICAL", 600)

\* C22: a cycle that is over, on a window with errorCount errors in
\* totalCount samples, has emitted one error rate alert, CRITICAL when
\* errorCount / totalCount * 100 > critical, else WARNING when it is
\* > warning, else none.
C22_ErrorRate ==
    (cycle.pc = "idle" /\ cycle.n > 0) =>
        EmittedAs(cycle, "errorRate",
                  Expected(cycle.errors * 1000 > thresholds.errorRate.critical * cycle.total,
                           cycle.errors * 1000 > thresholds.errorRate.warning * cycle.total))

\* C23: a cycle that began on a window with samples and is over has left
\* the window empty: no samples, both counters 0.
C23_WindowReset ==
    (cycle.pc = "idle" /\ cycle.n > 0) => cycle.windowAfter = <<0, 0, 0>>

\* C24: a cycle emits at most one latency alert and at most one error rate
\* alert, and the severity of each is the one its own signal asks for.
C24_AtMostOneEach ==
    /\ Cardinality(AlertsOf(cycle, "latency")) <= 1
    /\ Cardinality(AlertsOf(cycle, "errorRate")) <= 1
    /\ Len(cycle.emitted) <= 2
    /\ \A k \in AlertsOf(cycle, "latency") :
          cycle.emitted[k].severity =
              Expected(cycle.p95 > thresholds.responseTime.critical,
                       cycle.p95 > thresholds.responseTime.warning)
    /\ \A k \in AlertsOf(cycle, "errorRate") :
          cycle.emitted[k].severity =
              Expected(cycle.errors * 1000 > thresholds.errorRate.critical * cycle.total,
                       cycle.errors * 1000 > thresholds.errorRate.warning * cycle.total)

\* a cycle with a WARNING latency alert and a CRITICAL error rate alert
C24_Witness ==
    /\ Len(cycle.emitted) = 2
    /\ cycle.emitted[1].signal = "latency"
    /\ cycle.emitted[1].severity = "WARNING"
    /\ cycle.emitted[2].signal = "errorRate"
    /\ cycle.emitted[2].severity = "CRITICAL"

\* C25: aggregateAndAlert on a window without samples emits nothing and
\* leaves the samples and both counters as they are.
C25_EmptyWindowNoOp ==
    [][(cycle = IdleCycle /\ Len(responseTimes) = 0 /\ cycle' # cycle) =>
          /\ cycle'.emitted = << >>
          /\ cycle'.pc = "idle"
          /\ windowVars' = windowVars]_vars

\* a cycle on the empty window that follows a cycle which reset it
C25_Witness ==
    /\ cycle = EmptyCycle
    /\ recorded > 0
    /\ Len(responseTimes) = 0
    /\ requestCount = 0
    /\ errorCount = 0

----------------------------------------------------------------------------
(* the notification methods of AIMonitor *)

\* a call of one of the four notification methods got past the enabled test
\* and found notifiers
Notifying == call.op \in NotificationOps /\ call.stopped # "disabled" /\ numNotifiers > 0

\* C26: pipelineStatus, deployment, dailyReport and notify call the matching
\* method of every notifier once, in array order and with the caller's
\* argument, resolve once all of them have settled whichever of them
\* rejected, and neither consult or change the deduplicator nor run the
\* enrichment or a plugin hook.
C26_NotificationFanOut ==
    /\ [](call.op \in NotificationOps =>
            /\ call.dedup = "none"
            /\ call.chain = "notrun"
            /\ call.enhanced = Null
            /\ \A k \in 1..Len(call.trace) :
                  call.trace[k].ev = NotifierMethod(call.op)
            /\ Notifying =>
                  /\ Len(call.trace) = numNotifiers
                  /\ \A n \in 1..numNotifiers :
                        call.trace[n] = Event(NotifierMethod(call.op), n, call.input,
                                              Res("called"))
                  /\ call.pc = "notify" => call.outcome = "pending"
                  /\ call.pc = "idle" =>
                        /\ call.stopped = "delivered"
                        /\ call.outcome = "resolved"
                        /\ call.rejected \subseteq 1..numNotifiers)
    /\ [][call'.op \in NotificationOps => entries' = entries]_vars

\* a deployment notification went to two notifiers, both rejected, with a
\* deduplicator, the enrichment and a plugin with both hooks configured
C26_Witness ==
    /\ call.op = "deployment"
    /\ call.stopped = "delivered"
    /\ call.rejected = {1, 2}
    /\ numNotifiers = 2
    /\ dedupOn
    /\ aiOn
    /\ Len(plugins) > 0
    /\ plugins[1].onAlert
    /\ plugins[1].onBeforeNotify

----------------------------------------------------------------------------
(* enrichment failure *)

\* analyzeLog was called for the current alert() and failed
EnrichmentFailed ==
    \E k \in EventsOf(call.trace, "analysis") : call.trace[k].res = Res("failed")

\* C27: when analyzeLog fails, alert() goes on with the alert as it was
\* before the enrichment (stamped, message and metrics untouched): the plugin
\* chain is entered with it, the notifiers are called when the chain returns
\* an alert, and alert() rejects only if a plugin hook throws.
C27_EnrichmentFailure ==
    /\ [](EnrichmentFailed =>
            /\ call.enhanced = Stamp(call.input, call.enhanced.timestamp)
            /\ call.chain # "notrun"
            /\ \A k \in EventsOf(call.trace, "onAlert") \cup
                        EventsOf(call.trace, "onBeforeNotify") :
                  (\A j \in EventsOf(call.trace, "onAlert") : j >= k) =>
                      call.trace[k].arg = call.enhanced
            /\ (call.chain = "returned" /\ numNotifiers > 0) =>
                  \A n \in 1..numNotifiers :
                      \E k \in EventsOf(call.trace, "sendAlert") :
                          /\ call.trace[k].who = n
                          /\ call.trace[k].arg = Final(call.processed, call.enhanced)
            /\ call.outcome = "rejected" =>
                  \E k \in 1..Len(call.trace) : call.trace[k].res = Res("throw")
            /\ (call.pc = "idle" /\ call.chain = "returned") => call.outcome = "resolved")
    /\ [][(call.pc = "enrich" /\ EnrichmentFailed') =>
              /\ call'.pc = "transform"
              /\ call'.outcome = "pending"
              /\ call'.current = call.enhanced]_vars

\* the enrichment failed, a plugin's onAlert then ran on the unenriched
\* alert and both notifiers were called
C27_Witness ==
    /\ EnrichmentFailed
    /\ call.stopped = "delivered"
    /\ call.outcome = "resolved"
    /\ numNotifiers = 2
    /\ EventsOf(call.trace, "onAlert") # {}
    /\ Cardinality(EventsOf(call.trace, "sendAlert")) = 2
    /\ \A k \in EventsOf(call.trace, "sendAlert") :
          "aiAnalysis" \notin call.trace[k].arg.metrics

----------------------------------------------------------------------------
(* the disabled monitor *)

\* C28: with enabled = false, alert() and the four notification methods
\* resolve without calling a notifier, the deduplicator, the enrichment or a
\* plugin hook, and the deduplicator's entries stay as they are.
C28_DisabledIsInert ==
    /\ [](~enabled =>
            /\ call.trace = << >>
            /\ call.dedup = "none"
            /\ call.chain = "notrun"
            /\ call.pc = "idle"
            /\ call.op # "none" => (call.stopped = "disabled" /\ call.outcome = "resolved"))
    /\ [][~enabled => entries' = entries]_vars

\* alert() returned on a disabled monitor that has a deduplicator, two
\* notifiers and a plugin with both hooks
C28_Witness ==
    /\ ~enabled
    /\ call.op = "alert"
    /\ call.stopped = "disabled"
    /\ dedupOn
    /\ numNotifiers = 2
    /\ Len(plugins) > 0
    /\ plugins[1].onAlert
    /\ plugins[1].onBeforeNotify

----------------------------------------------------------------------------
(* validateConfig and the constructor of AIMonitor *)

\* JavaScript values, as far as typeof, <=, < and ?? tell them apart
Undefined == [t |-> "undefined", v |-> 0, nan |-> FALSE]
JsNull == [t |-> "object", v |-> 0, nan |-> FALSE]
Str == [t |-> "string", v |-> 0, nan |-> FALSE]
NaN == [t |-> "number", v |-> 0, nan |-> TRUE]
Num(n) == [t |-> "number", v |-> n, nan |-> FALSE]
Bool(b) == [t |-> "boolean", v |-> IF b THEN 1 ELSE 0, nan |-> FALSE]

\* x <= n in JavaScript, for a value x whose typeof is "number": every
\* comparison with NaN is false
LessEq(x, n) == ~x.nan /\ x.v <= n

\* x ?? d
Coalesce(x, d) == IF x = Undefined \/ x = JsNull THEN d ELSE x

DefaultCooldownMs == 300000

CooldownInputs == {Undefined, JsNull, Str, NaN, Num(0 - 1), Num(0), Num(1), Num(300)}

NoDeduplication == [present |-> FALSE, enabled |-> Undefined, cooldownMs |-> Undefined]

Deduplications ==
    {NoDeduplication} \cup
    [present : {TRUE}, enabled : {Undefined, Bool(TRUE), Bool(FALSE)},
     cooldownMs : CooldownInputs]

\* the configurations a caller may hand to the constructor
Configs ==
    [port : {Undefined, Num(0), Num(3333)},
     host : {Str, Num(123)},
     enabled : {Undefined, Bool(FALSE), Str},
     notifiersOk : BOOLEAN,
     aiConfig : {"absent", "keyed", "keyless"},
     deduplication : Deduplications,
     plugins : {"absent", "named", "unnamed"}]

PortErrors(cfg) ==
    IF cfg.port = Undefined THEN << >>
    ELSE IF cfg.port.t # "number" \/ cfg.port.nan THEN <<"port must be a finite number">>
    ELSE IF cfg.port.v < 1 \/ cfg.port.v > 65535
         THEN <<"port must be between 1 and 65535">>
         ELSE << >>

\* typeof cooldownMs !== 'number' || cooldownMs <= 0
DeduplicationErrors(cfg) ==
    IF /\ cfg.deduplication.present
       /\ cfg.deduplication.cooldownMs # Undefined
       /\ \/ cfg.deduplication.cooldownMs.t # "number"
          \/ LessEq(cfg.deduplication.cooldownMs, 0)
    THEN <<"deduplication.cooldownMs must be a positive number">> ELSE << >>

validateConfig(cfg) ==
    LET host == IF cfg.host # Undefined /\ cfg.host.t # "string"
                THEN <<"host must be a string">> ELSE << >>
        enabled_ == IF cfg.enabled # Undefined /\ cfg.enabled.t # "boolean"
                    THEN <<"enabled must be a boolean">> ELSE << >>
        notifiers == IF ~cfg.notifiersOk
                     THEN <<"notifiers[0] must implement INotifier">> ELSE << >>
        ai == IF cfg.aiConfig = "keyless"
              THEN <<"aiConfig.apiKey is required">> ELSE << >>
        plugins_ == IF cfg.plugins = "unnamed"
                    THEN <<"plugins[0] must have a non-empty name">> ELSE << >>
        errors == PortErrors(cfg) \o host \o enabled_ \o notifiers \o ai \o
                  DeduplicationErrors(cfg) \o plugins_
    IN  [valid |-> errors = << >>, errors |-> errors]

\* new AlertDeduplicator(config.deduplication)
NewDeduplicator(d) == [cooldownMs |-> Coalesce(d.cooldownMs, Num(DefaultCooldownMs))]

\* what the constructor leaves in the fields of the monitor; axios tells
\* whether the AI service could be loaded
NewMonitor(cfg, axios) ==
    LET aiService == cfg.aiConfig = "keyed" /\ axios
    IN  [status |-> "constructed",
         enabled |-> Coalesce(cfg.enabled, Bool(TRUE)),
         aiService |-> aiService,
         enableAIEnhancedAlerts |-> aiService,
         deduplicator |-> IF cfg.deduplication.present /\
                             cfg.deduplication.enabled # Bool(FALSE)
                          THEN NewDeduplicator(cfg.deduplication)
                          ELSE Null,
         plugins |-> IF cfg.plugins = "named" THEN 1 ELSE 0]

\* new AIMonitor(config): throws when validateConfig finds errors
Construct ==
    \E axios \in BOOLEAN :
        /\ built = NotBuilt
        /\ config # NoConfig
        /\ LET validation == validateConfig(config)
           IN  built' = IF ~validation.valid
                        THEN [status |-> "threw", errors |-> validation.errors]
                        ELSE NewMonitor(config, axios)
        /\ UNCHANGED <<config, multi, webhook, now, dedupVars, monitorVars, probeVars, aggVars>>

CtorInit ==
    /\ now = 0
    /\ cooldownMs = 0
    /\ entries = << >>
    /\ ret = NoRet
    /\ lastTrue = << >>
    /\ falseReturns = << >>
    /\ MonitorUnused
    /\ ProbeUnused
    /\ AggUnused
    /\ config \in Configs
    /\ built = NotBuilt
    /\ multi = NoMulti
    /\ webhook = NoWebhook

CtorNext == Construct

CtorSpec == CtorInit /\ [][CtorNext]_vars

\* a number greater than zero
IsPositiveNumber(x) == x.t = "number" /\ ~x.nan /\ x.v > 0

\* C29: a configuration whose deduplication.cooldownMs is given and is not
\* a positive number makes the constructor throw, and the deduplicator of a
\* constructed monitor has a cooldown greater than zero.
C29_PositiveCooldown ==
    /\ (/\ built.status # "none"
        /\ config.deduplication.present
        /\ config.deduplication.cooldownMs # Undefined
        /\ ~IsPositiveNumber(config.deduplication.cooldownMs)) =>
          built.status = "threw"
    /\ (built.status = "constructed" /\ built.deduplicator # Null) =>
          IsPositiveNumber(built.deduplicator.cooldownMs)

----------------------------------------------------------------------------
(* MultiNotifier *)

MaxChildren == 3
MaxCalls == 2

NotifierMethods ==
    {"send", "sendAlert", "sendPipelineStatus", "sendDeploymentNotification",
     "sendDailyReport"}

\* a MultiNotifier over n children with no call in progress, after calls
\* calls
IdleMulti(n, stopOnFirstError, calls) ==
    [n |-> n, stopOnFirstError |-> stopOnFirstError, calls |-> calls,
     pc |-> "idle", method |-> "none",
     invoked |-> << >>, results |-> [i \in 1..n |-> "notcalled"],
     outcome |-> "none", error |-> "none"]

\* the call resolves, or rejects with error
MultiFinish(m, outcome, error) ==
    [m EXCEPT !.pc = "idle", !.outcome = outcome, !.error = error]

\* action(notifier) for child i
Invoke(m, i) ==
    [m EXCEPT !.invoked = Append(@, i), !.results[i] = "pending"]

RECURSIVE InvokeAll(_, _)
\* this.notifiers.map((notifier) => action(notifier))
InvokeAll(m, k) ==
    IF k = 0 THEN m ELSE Invoke(InvokeAll(m, k - 1), k)

\* the call rejects as soon as one child has rejected
AfterAllSettled_AnyFailed(m) ==
    IF \E i \in 1..m.n : m.results[i] = "rejected"
    THEN MultiFinish(m, "rejected", "All notifiers failed")
    ELSE MultiFinish(m, "resolved", "none")

\* after Promise.allSettled: throw when results.every(rejected), else log
\* the failures
AfterAllSettled(m) ==
    IF \A i \in 1..m.n : m.results[i] = "rejected"
    THEN MultiFinish(m, "rejected", "All notifiers failed")
    ELSE MultiFinish(m, "resolved", "none")

\* send, sendAlert, sendPipelineStatus, sendDeploymentNotification or
\* sendDailyReport up to the first await of executeOnAll
ExecuteBegin ==
    \E method \in NotifierMethods :
        /\ multi.pc = "idle"
        /\ multi.outcome = "none"
        /\ multi.calls < MaxCalls
        /\ LET m == [multi EXCEPT !.method = method, !.outcome = "pending",
                                  !.calls = @ + 1]
           IN  multi' = IF m.stopOnFirstError
                        THEN IF m.n = 0 THEN MultiFinish(m, "resolved", "none")
                             ELSE Invoke([m EXCEPT !.pc = "sequential"], 1)
                        ELSE InvokeAll([m EXCEPT !.pc = "parallel"], m.n)
        /\ UNCHANGED <<ctorVars, webhook, now, dedupVars, monitorVars, probeVars, aggVars>>

\* the promise of one child settles; in the sequential mode the loop goes on
\* to the next child or the rejection leaves executeOnAll
ChildSettle ==
    \E i \in 1..multi.n, ok \in BOOLEAN :
        /\ multi.pc \in {"parallel", "sequential"}
        /\ multi.results[i] = "pending"
        /\ LET m == [multi EXCEPT !.results[i] = IF ok THEN "fulfilled" ELSE "rejected"]
           IN  multi' = IF m.pc = "parallel" THEN m
                        ELSE IF ~ok THEN MultiFinish(m, "rejected", "child")
                        ELSE IF i = m.n THEN MultiFinish(m, "resolved", "none")
                        ELSE Invoke(m, i + 1)
        /\ UNCHANGED <<ctorVars, webhook, now, dedupVars, monitorVars, probeVars, aggVars>>

\* Promise.allSettled resolves once no child is pending
AllSettled ==
    /\ multi.pc = "parallel"
    /\ \A i \in 1..multi.n : multi.results[i] # "pending"
    /\ multi' = AfterAllSettled(multi)
    /\ UNCHANGED <<ctorVars, webhook, now, dedupVars, monitorVars, probeVars, aggVars>>

\* the promise of the call settles and its caller goes on
ExecuteReturn ==
    /\ multi.pc = "idle"
    /\ multi.outcome \in {"resolved", "rejected"}
    /\ multi' = IdleMulti(multi.n, multi.stopOnFirstError, multi.calls)
    /\ UNCHANGED <<ctorVars, webhook, now, dedupVars, monitorVars, probeVars, aggVars>>

MultiInit ==
    /\ now = 0
    /\ cooldownMs = 0
    /\ entries = << >>
    /\ ret = NoRet
    /\ lastTrue = << >>
    /\ falseReturns = << >>
    /\ MonitorUnused
    /\ ProbeUnused
    /\ AggUnused
    /\ config = NoConfig
    /\ built = NotBuilt
    /\ \E n \in 0..MaxChildren, stopOnFirstError \in BOOLEAN :
          multi = IdleMulti(n, stopOnFirstError, 0)
    /\ webhook = NoWebhook

MultiNext == ExecuteBegin \/ ChildSettle \/ AllSettled \/ ExecuteReturn

MultiSpec == MultiInit /\ [][MultiNext]_vars

\* C30: in the parallel mode executeOnAll invokes the method on every child,
\* in array order, before any of them settles; it settles only when all of
\* them have, rejects with 'All notifiers failed' exactly when every child
\* rejected and resolves when some child succeeded.
C30_ParallelMode ==
    (~multi.stopOnFirstError /\ multi.outcome # "none") =>
        /\ multi.invoked = [i \in 1..multi.n |-> i]
        /\ multi.outcome = "pending" <=> multi.pc = "parallel"
        /\ multi.pc = "idle" =>
              /\ \A i \in 1..multi.n : multi.results[i] \in {"fulfilled", "rejected"}
              /\ multi.outcome = "rejected" <=>
                    \A i \in 1..multi.n : multi.results[i] = "rejected"
              /\ multi.outcome = "rejected" => multi.error = "All notifiers failed"
              /\ (\E i \in 1..multi.n : multi.results[i] = "fulfilled") =>
                    multi.outcome = "resolved"

\* the first and the third of three children rejected, the second succeeded
\* and the call resolved
C30_Witness ==
    /\ ~multi.stopOnFirstError
    /\ multi.n = 3
    /\ multi.results = <<"rejected", "fulfilled", "rejected">>
    /\ multi.invoked = <<1, 2, 3>>
    /\ multi.pc = "idle"
    /\ multi.outcome = "resolved"

----------------------------------------------------------------------------
(* a throwing hook *)

\* the events of the current alert() in which a hook threw
Throws == {k \in 1..Len(call.trace) : call.trace[k].res = Res("throw")}

\* C32: when an onAlert or onBeforeNotify throws, this is the last thing the
\* alert() call does: processAlert and alert() reject, no later hook is
\* called and no notifier is invoked.
C32_HookThrowRejects ==
    /\ \A k \in Throws :
          /\ k = Len(call.trace)
          /\ call.trace[k].ev \in {"onAlert", "onBeforeNotify"}
          /\ call.pc = "idle"
          /\ call.chain = "threw"
          /\ call.stopped = "threw"
          /\ call.outcome = "rejected"
          /\ EventsOf(call.trace, "sendAlert") = {}
    /\ (call.op = "alert" /\ call.outcome = "rejected") => Throws # {}

\* the onBeforeNotify of the first plugin threw after its onAlert had run,
\* with a second plugin that has both hooks and two notifiers configured
C32_Witness ==
    /\ Len(plugins) = 2
    /\ plugins[2].onAlert
    /\ plugins[2].onBeforeNotify
    /\ numNotifiers = 2
    /\ Throws # {}
    /\ call.trace[Len(call.trace)].ev = "onBeforeNotify"
    /\ call.trace[Len(call.trace)].who = 1
    /\ call.outcome = "rejected"

----------------------------------------------------------------------------
(* the cooldown under a stream of identical alerts *)

\* C33: a shouldSend call that returns false leaves lastSent of its entry as
\* it was, and a call made cooldownMs or more after the last call that
\* returned true for the fingerprint returns true, whatever was suppressed
\* in between.
C33_CooldownNotExtended ==
    /\ []((ret.op = "shouldSend" /\ ret.prev # NoTs /\ ret.at - ret.prev >= cooldownMs)
            => ret.result)
    /\ [][\A k \in DOMAIN entries \cap DOMAIN entries' :
             (entries'[k].count = entries[k].count + 1 /\ ~ret'.result) =>
                 entries'[k].lastSent = entries[k].lastSent]_vars

\* under a cooldown of 2 an alert was sent at 0, suppressed at 1 and sent
\* again at 2
C33_Witness ==
    /\ ret.op = "shouldSend"
    /\ ret.result
    /\ cooldownMs = 2
    /\ ret.prev = 0
    /\ ret.at = 2
    /\ falseReturns[ret.key] >= 1
    /\ entries[ret.key].count = 3

----------------------------------------------------------------------------
(* the probe's result, overlapping checks and restarts *)

\* C34: with checks one at a time, when a run of runProbe is over the probe
\* is healthy iff the check of that run reported healthy, and
\* consecutiveFailures is 0 iff the probe is healthy, whether the alert
\* callback resolved or rejected.
C34_ResultReflectsCheck ==
    (done # NoRun /\ ~overlapped) =>
        /\ done.healthyAfter <=> (done.outcome = "healthy")
        /\ (done.after = 0) <=> done.healthyAfter

\* C35: the probe never hands two 'recovered' alerts to the alert callback
\* without an 'is down' alert between them, also when its checks overlap.
C35_OneRecoveryPerOutage == recent # <<"recovered", "recovered">>

\* C39: after stop(), and until start() is called again, no timer of the
\* probe is left that could start a check, however often start() was called
\* before.
C39_NoTimerAfterStop == ~intervals => timers = 0

----------------------------------------------------------------------------
(* samples recorded while a cycle is suspended *)

\* C36: every sample is evaluated by exactly one cycle: the samples a cycle
\* removes from the window when it is over are the samples it evaluated, no
\* more (none is discarded unevaluated) and no fewer (none is left to be
\* evaluated again).
C36_EverySampleOnce ==
    (cycle.pc = "idle" /\ cycle.n > 0) => cycle.cleared = cycle.n

----------------------------------------------------------------------------
(* the dedup gate and what happens to the alert afterwards *)

\* the current alert() passed the dedup gate and then delivered nothing: a
\* plugin suppressed the alert, a hook threw, or every notifier rejected
Undelivered ==
    /\ call.op = "alert"
    /\ call.dedup = "sent"
    /\ \/ call.stopped \in {"plugin", "threw"}
       \/ call.stopped = "delivered" /\ call.rejected = 1..numNotifiers

\* C37: from the moment shouldSend has returned true for an alert, through
\* enrichment, plugins and notifiers and whatever becomes of the alert, the
\* deduplicator holds it as sent at the time of the call, so that shouldSend
\* is false for an identical alert at every time before the cooldown has
\* elapsed, also when nothing was delivered.
C37_RecordedAtTheGate ==
    (call.op = "alert" /\ call.dedup = "sent") =>
        LET key == fingerprint(call.input)
        IN  /\ key \in DOMAIN entries
            /\ entries[key].lastSent = now
            /\ \A t \in now..(now + cooldownMs - 1) :
                  ~ShouldSendResult(entries, key, t, cooldownMs)

\* an alert that passed the gate was then suppressed by a plugin, with a
\* positive cooldown and a notifier configured
C37_Witness ==
    /\ Undelivered
    /\ call.stopped = "plugin"
    /\ cooldownMs > 0
    /\ numNotifiers > 0
    /\ ~ShouldSendResult(entries, fingerprint(call.input), now, cooldownMs)

----------------------------------------------------------------------------
(* HealthProbeManager behind the dedup gate of AIMonitor *)

\* the alert of a probe as alert() and the deduplicator see it
AlertOf(a) ==
    [severity |-> <<a.severity>>, title |-> <<a.title>>,
     message |-> <<"failures", a.failures>>, timestamp |-> now, metrics |-> {}]

\* one runProbe from the settling of its check to its end, on a manager
\* whose alert callback is (alert) => monitor.alert(alert) of a monitor with
\* a deduplicator, no plugins and notifiers that accept: alert() asks
\* shouldSend first and resolves in either case
GatedRun ==
    \E r \in InFlight, outcome \in CheckOutcomes(probeType) :
        LET checked == AfterCheck(runs[r], results, outcome)
            emits == checked.run.pc # "end"
            alert == AlertOf(checked.run.emitted[Len(checked.run.emitted)])
            key == fingerprint(alert)
            send == ShouldSendResult(entries, key, now, cooldownMs)
            final == IF checked.run.pc = "alert"
                     THEN AfterAlert(checked.run, checked.res, TRUE)
                     ELSE [res |-> checked.res,
                           run |-> [checked.run EXCEPT !.settled =
                                       IF emits THEN Append(@, "resolved") ELSE @]]
        IN  /\ runs[r].pc = "check"
            /\ done = NoRun
            /\ outcome # "healthy" =>
                  (results.consecutiveFailures < MaxFailures /\ streak < MaxFailures)
            /\ emits => CountOf(entries, key) < MaxCount
            /\ streak' = IF outcome = "healthy" THEN 0 ELSE streak + 1
            /\ results' = final.res
            /\ recent' = RecentAfter(runs[r], checked.run)
            /\ runs' = [runs EXCEPT ![r] = FreeRun]
            /\ done' = Settled(final.run, final.res, "resolved")
            /\ IF emits
               THEN /\ entries' = ShouldSendEntries(entries, key, now, cooldownMs)
                    /\ ret' = [op |-> "shouldSend", key |-> key, result |-> send,
                               at |-> now, alert |-> alert]
               ELSE /\ ret' = NoRet
                    /\ UNCHANGED entries
            /\ UNCHANGED <<lastTrue, falseReturns, extVars, aggVars, now, cooldownMs, monitorVars, probeType,
                           consecutiveFailuresForCritical, starts, intervals, timers,
                           overlapped>>

FlapInit ==
    /\ now = 0
    /\ cooldownMs \in 1..MaxCooldown
    /\ entries = << >>
    /\ ret = NoRet
    /\ lastTrue = << >>
    /\ falseReturns = << >>
    /\ enabled = TRUE
    /\ dedupOn = TRUE
    /\ aiOn = FALSE
    /\ numNotifiers = 1
    /\ plugins = << >>
    /\ call = IdleCall
    /\ lifecycle = << >>
    /\ hookCall = IdleHook
    /\ probeType \in ProbeTypes
    /\ consecutiveFailuresForCritical \in 2..MaxThreshold
    /\ ProbeIdle
    /\ AggUnused
    /\ ExtUnused

FlapNext == Tick \/ Start \/ TimerFire \/ GatedRun \/ RunReturn

FlapSpec == FlapInit /\ [][FlapNext]_vars

\* C38: on a manager started once and with checks one at a time, a run whose
\* check moved the probe from healthy to unhealthy or from unhealthy to
\* healthy has emitted an alert that passed the dedup gate of the monitor.
C38_TransitionsDelivered ==
    (done # NoRun /\ starts <= 1 /\ ~overlapped /\ done.wasHealthy # (done.outcome = "healthy")) =>
        /\ done.emitted # << >>
        /\ ret.op = "shouldSend"
        /\ ret.result

----------------------------------------------------------------------------
(* WebhookNotifier *)

MaxRetries == 2
MaxPosts == 2

\* the type field of the payload send, sendAlert, sendPipelineStatus,
\* sendDeploymentNotification and sendDailyReport hand to post
PayloadTypes == {"message", "alert", "pipeline", "deployment", "daily_report"}

\* a WebhookNotifier with no post in progress, after posts calls of post
IdlePost(retries, retryDelayMs, posts) ==
    [retries |-> retries, retryDelayMs |-> retryDelayMs, posts |-> posts,
     pc |-> "idle", type |-> "none", attempt |-> 0, requests |-> 0, lastError |-> 0,
     waits |-> << >>, outcome |-> "none", error |-> 0]

\* the loop never ends by itself
InLoop_Unbounded(attempt, retries) == TRUE

\* attempt <= this.config.retries
InLoop(attempt, retries) == attempt <= retries

\* the for loop at its test, with attempt already set: the next request is
\* made, or the loop is left and lastError is thrown
LoopTest(w) ==
    IF InLoop(w.attempt, w.retries)
    THEN [w EXCEPT !.pc = "request", !.requests = @ + 1]
    ELSE [w EXCEPT !.pc = "idle", !.outcome = "rejected", !.error = w.lastError]

\* one of the five send methods calls post, which makes the first request
PostBegin ==
    \E type \in PayloadTypes :
        /\ webhook.pc = "idle"
        /\ webhook.outcome = "none"
        /\ webhook.posts < MaxPosts
        /\ webhook' = LoopTest([webhook EXCEPT !.type = type, !.outcome = "pending",
                                               !.posts = @ + 1])
        /\ UNCHANGED <<ctorVars, multi, now, dedupVars, monitorVars, probeVars, aggVars>>

\* the awaited request settles: post returns on success; on failure the
\* error is kept and the backoff timer is set unless this was the last attempt
RequestSettle ==
    \E ok \in BOOLEAN :
        /\ webhook.pc = "request"
        /\ LET failed == [webhook EXCEPT !.lastError = webhook.attempt + 1]
           IN  webhook' =
                 IF ok THEN [webhook EXCEPT !.pc = "idle", !.outcome = "resolved"]
                 ELSE IF webhook.attempt < webhook.retries
                 THEN [failed EXCEPT !.pc = "backoff",
                                     !.waits = Append(@, webhook.retryDelayMs *
                                                         2 ^ webhook.attempt)]
                 ELSE LoopTest([failed EXCEPT !.attempt = @ + 1])
        /\ UNCHANGED <<ctorVars, multi, now, dedupVars, monitorVars, probeVars, aggVars>>

\* the backoff timer fires and the loop goes on
BackoffElapsed ==
    /\ webhook.pc = "backoff"
    /\ webhook' = LoopTest([webhook EXCEPT !.attempt = @ + 1])
    /\ UNCHANGED <<ctorVars, multi, now, dedupVars, monitorVars, probeVars, aggVars>>

\* the promise of post settles and its caller goes on
PostReturn ==
    /\ webhook.pc = "idle"
    /\ webhook.outcome \in {"resolved", "rejected"}
    /\ webhook' = IdlePost(webhook.retries, webhook.retryDelayMs, webhook.posts)
    /\ UNCHANGED <<ctorVars, multi, now, dedupVars, monitorVars, probeVars, aggVars>>

WebhookInit ==
    /\ now = 0
    /\ cooldownMs = 0
    /\ entries = << >>
    /\ ret = NoRet
    /\ lastTrue = << >>
    /\ falseReturns = << >>
    /\ MonitorUnused
    /\ ProbeUnused
    /\ AggUnused
    /\ config = NoConfig
    /\ built = NotBuilt
    /\ multi = NoMulti
    /\ \E retries \in 0..MaxRetries, retryDelayMs \in {10, 1000} :
          webhook = IdlePost(retries, retryDelayMs, 0)

WebhookNext == PostBegin \/ RequestSettle \/ BackoffElapsed \/ PostReturn

\* a request that is awaited settles and a timer that is set fires
WebhookSpec ==
    /\ WebhookInit
    /\ [][WebhookNext]_vars
    /\ WF_vars(RequestSettle)
    /\ WF_vars(BackoffElapsed)

====
